---- MODULE Spec2Model ----
(***************************************************************************)
(* guardian-redact, python worker scripts.                                 *)
(*                                                                         *)
(* The programs modelled, one per run (variable worker):                   *)
(*   ollama_manager.py           the supervisor of the inference service   *)
(*   apply_audio_redactions.py   the audio interval redactor               *)
(*     (and the older apply_audio_redactions of process_audio.py)          *)
(*   export_pdf.py               the PDF interval redactor                 *)
(*   process_page.py, process_audio.py   the response sanitizers           *)
(* The variables of the programs that do not run stay at their idle value. *)
(***************************************************************************)
EXTENDS Integers, Sequences, FiniteSets, TLC

VARIABLES
    worker,         \* which script this run executes
    \* ---- ollama_manager.py ------------------------------------------------
    process,        \* OllamaManager.process: 0 is None, else the child's id
    children,       \* children[c]: "none" | "running", every 'ollama serve' child
    service_up,     \* whether GET /api/tags on localhost:11434 answers 200
    model_present,  \* whether the model is listed by /api/tags
    exe_exists,     \* whether ollama.exe exists
    pc,             \* pc[t]: position of thread t inside initialize
    poll_i,         \* poll_i[t]: loop variable i of the start-up poll loop
    calls,          \* calls[t]: number of initialize calls thread t has made
    result,         \* result[t]: what the last call of t returned
    sent,           \* sent[c]: what shutdown did to child c, in order
    manager,        \* whether the global _ollama_manager is set
    shutdowns,      \* shutdowns[t]: number of shutdown calls thread t has made
    frames,         \* frames[t]: the function whose shutdown t is running
    pull,           \* pull[t]: the 'ollama pull' child of t's call and its output
    pull_outputs,   \* what 'ollama pull' may print in this run
    \* ---- apply_audio_redactions.py, process_audio.py -----------------------
    redactions,         \* the directive list handed to the redactor
    audio,              \* the AudioSegment being edited, one sample per ms
    sorted_redactions,  \* the processing order: indices into redactions
    a_pc,               \* position inside the redactor
    a_idx,              \* directives of sorted_redactions already iterated
    a_result,           \* "pending" | "True" | "False": the return value
    a_error,            \* what ended the call: "none" | "KeyError" | "load_failed" | "export_failed"
    output,             \* the exported artifact, <<>> while not exported
    exported,           \* whether audio.export(output_path) has happened
    shifted_file,       \* temp_shifted.wav in the working directory
    a_log,              \* one entry per iterated directive, in iteration order
    \* ---- export_pdf.py ----------------------------------------------------
    pdf_redactions,     \* the directive list handed to export_redacted_pdf
    text_redactions,    \* indices of the directives routed to apply_text_redactions
    image_redactions,   \* indices of the directives routed to apply_image_redactions
    annots,             \* annots[p]: redaction annotations added to page p, not yet applied
    removed,            \* removed[p]: regions whose content page p has lost
    drawn,              \* drawn[p]: opaque boxes drawn on page p
    p_pc,               \* position inside export_redacted_pdf
    p_idx,              \* loop position of the routine that runs
    p_result,           \* "pending" | "True" | "False"
    p_error,            \* "none" | "KeyError" | "io"
    saved,              \* the documents saved so far, oldest first
    \* ---- process_page.py, process_audio.py: the response sanitizers -------
    reply,              \* what the model answered: a text, or no response
    san_pc,             \* "idle" | "start" | the sanitizer that has run
    san_out,            \* what the sanitizer returned, or that it raised
    \* ---- process_page.py: find_text_positions ------------------------------
    target_texts,       \* the candidate texts to locate, in order
    words,              \* page.get_text("words"): the words of the page
    text_instances,     \* text_instances[t]: what page.search_for(t) returns
    text_positions,     \* the mapping built so far, then the one returned
    loc_pc,             \* "idle" | "open" | "loop" | "done"
    loc_i,              \* candidates of target_texts already handled
    scored,             \* the candidates the word scoring was run for
    \* ---- process_page.py: main and process_page ----------------------------
    profile,            \* "quick" | "deep"
    page_number,        \* the page asked for
    page_text,          \* what extract_text_from_page returned
    images,             \* len(img['data']) of the images of the page, in order
    chat_outcome,       \* how the chat request ended, "none" before it
    chats,              \* chat requests sent
    page_redactions,    \* the list process_page is building
    pg_pc,              \* position inside main and process_page
    exit_code,          \* the exit status, -1 while running
    stdout,             \* the list printed to stdout, <<>> when none was
    \* ---- ollama_manager.py: the module-level accessors --------------------
    global_manager,     \* _ollama_manager: an instance number, None before
    instances,          \* OllamaManager instances constructed so far
    acc_pc,             \* acc_pc[t]: position of t inside get_ollama_manager
    acc_fn,             \* acc_fn[t]: the accessor t is running
    acc_calls,          \* acc_calls[t]: accessor calls t has made
    observed            \* observed[t]: the instances t's calls got

sdVars == <<sent, manager, shutdowns, frames>>
pullVars == <<pull, pull_outputs>>

supVars == <<process, children, service_up, model_present, exe_exists,
             pc, poll_i, calls, result, sdVars, pullVars>>

audVars == <<redactions, audio, sorted_redactions, a_pc, a_idx, a_result,
             a_error, output, exported, shifted_file, a_log>>

pdfVars == <<pdf_redactions, text_redactions, image_redactions, annots,
             removed, drawn, p_pc, p_idx, p_result, p_error, saved>>

sanVars == <<reply, san_pc, san_out>>

locVars == <<target_texts, words, text_instances, text_positions, loc_pc,
             loc_i, scored>>

pgVars == <<profile, page_number, page_text, images, chat_outcome, chats,
            page_redactions, pg_pc, exit_code, stdout>>

accVars == <<global_manager, instances, acc_pc, acc_fn, acc_calls, observed>>

vars == <<worker, supVars, audVars, pdfVars, sanVars, locVars, pgVars, accVars>>

notSup == <<audVars, pdfVars, sanVars, locVars, pgVars, accVars>>
notAud == <<supVars, pdfVars, sanVars, locVars, pgVars, accVars>>
notPdf == <<supVars, audVars, sanVars, locVars, pgVars, accVars>>
notSan == <<supVars, audVars, pdfVars, locVars, pgVars, accVars>>
notLoc == <<supVars, audVars, pdfVars, sanVars, pgVars, accVars>>
notAcc == <<supVars, audVars, pdfVars, sanVars, locVars, pgVars>>

(***************************************************************************)
(* Bounds of the model.                                                    *)
(***************************************************************************)
MaxCalls == 2       \* initialize calls made by one thread
MaxChildren == 3    \* 'ollama serve' children ever launched in one run
MaxDirectives == 2  \* directives in one list
MaxAudioMs == 3     \* length of the recording, in ms
MaxPages == 2       \* pages of the document
MaxExports == 2     \* exports in a row, each on the output of the one before
MaxShutdowns == 2   \* shutdown and shutdown_ollama calls made by one thread
MaxLines == 2       \* lines printed by one 'ollama pull'
MaxItems == 2       \* elements of the array in a model reply
MaxTargets == 2     \* candidate texts handed to find_text_positions
MaxWords == 2       \* words on the page
MaxImages == 2      \* images on the page

Threads == {"t1", "t2"}
None == 0

(***************************************************************************)
(* ollama_manager.py                                                       *)
(***************************************************************************)
\* The attempts lines 30 and 67 allow, and a loop that makes one more.
Attempts == 30
OneMoreAttempt == Attempts + 1

startup_timeout == 30

Children == 1..MaxChildren

Launched == {c \in Children : children[c] # "none"}

\* The probe that never answers: is_ollama_running() returning False always.
NeverRunning == FALSE

\* is_ollama_running(): one GET /api/tags; any failure is False.
is_ollama_running == service_up

\* is_model_available(): GET /api/tags lists the model; a failed request is False.
is_model_available == service_up /\ model_present

\* A shutdown that does not look at the handle.
AnyHandle == TRUE

\* if self.process: (line 180).
HoldsHandle == process # None

Return(t, value) ==
    /\ pc' = [pc EXCEPT ![t] = "idle"]
    /\ result' = [result EXCEPT ![t] = value]

Goto(t, label) ==
    /\ pc' = [pc EXCEPT ![t] = label]
    /\ UNCHANGED result

\* The provisioning state of a call that has not reached pull_model.
NoPull(cb) ==
    [callback |-> cb, status |-> "none", rc |-> 0, lines |-> <<>>,
     read |-> 0, delivered |-> <<>>]

\* A caller obtains the manager (get_ollama_manager, lines 203-208) and enters
\* initialize(progress_callback), line 161; the callback may be None.
initialize(t) ==
    /\ worker = "ollama_manager"
    /\ pc[t] = "idle"
    /\ calls[t] < MaxCalls
    /\ calls' = [calls EXCEPT ![t] = @ + 1]
    /\ pc' = [pc EXCEPT ![t] = "start_ollama_service"]
    /\ result' = [result EXCEPT ![t] = "pending"]
    /\ manager' = TRUE
    /\ \E cb \in BOOLEAN : pull' = [pull EXCEPT ![t] = NoPull(cb)]
    /\ UNCHANGED <<worker, process, children, service_up, model_present,
                   exe_exists, poll_i, sent, shutdowns, frames, pull_outputs,
                   notSup>>

\* start_ollama_service, lines 46-52: the first probe and the executable test.
start_ollama_service(t) ==
    /\ pc[t] = "start_ollama_service"
    /\ IF is_ollama_running
          THEN Goto(t, "model_check")
          ELSE IF ~exe_exists
                  THEN Return(t, "False")
                  ELSE Goto(t, "popen")
    /\ UNCHANGED <<worker, process, children, service_up, model_present,
                   exe_exists, poll_i, calls, sdVars, pullVars, notSup>>

\* The child the next Popen creates.
NextChild == CHOOSE c \in Children : /\ children[c] = "none"
                                     /\ \A d \in Children : d < c => children[d] # "none"

\* start_ollama_service, lines 58-64: self.process = subprocess.Popen(serve).
\* Nothing is tested between the probe of line 46 and this line, and the
\* manager holds no lock.
popen_serve(t) ==
    /\ pc[t] = "popen"
    /\ Cardinality(Launched) < MaxChildren
    /\ children' = [children EXCEPT ![NextChild] = "running"]
    /\ process' = NextChild
    /\ poll_i' = [poll_i EXCEPT ![t] = 0]
    /\ Goto(t, "poll")
    /\ UNCHANGED <<worker, service_up, model_present, exe_exists, calls,
                   sdVars, pullVars, notSup>>

\* start_ollama_service, lines 77-79: Popen raises, the except returns False.
popen_raises(t) ==
    /\ pc[t] = "popen"
    /\ Return(t, "False")
    /\ UNCHANGED <<worker, process, children, service_up, model_present,
                   exe_exists, poll_i, calls, sdVars, pullVars, notSup>>

\* start_ollama_service, lines 67-72: one attempt of the poll loop. The
\* loop variable is local: it is gone once the function returns True.
poll_attempt(t) ==
    /\ pc[t] = "poll"
    /\ poll_i[t] < startup_timeout
    /\ IF is_ollama_running
          THEN /\ Goto(t, "model_check")
               /\ poll_i' = [poll_i EXCEPT ![t] = 0]
          ELSE /\ poll_i' = [poll_i EXCEPT ![t] = @ + 1]
               /\ UNCHANGED <<pc, result>>
    /\ UNCHANGED <<worker, process, children, service_up, model_present,
                   exe_exists, calls, sdVars, pullVars, notSup>>

\* start_ollama_service, lines 74-75: the loop ran out, return False.
poll_timeout(t) ==
    /\ pc[t] = "poll"
    /\ poll_i[t] >= startup_timeout
    /\ Return(t, "False")
    /\ UNCHANGED <<worker, process, children, service_up, model_present,
                   exe_exists, poll_i, calls, sdVars, pullVars, notSup>>

\* initialize, lines 170-176: the model test after the service is up.
model_check(t) ==
    /\ pc[t] = "model_check"
    /\ IF is_model_available
          THEN Return(t, "True")
          ELSE Goto(t, "pull_model")
    /\ UNCHANGED <<worker, process, children, service_up, model_present,
                   exe_exists, poll_i, calls, sdVars, pullVars, notSup>>

\* pull_model, lines 96-111: the model test again, then Popen(pull); the
\* child's whole output is one of pull_outputs. Popen raising: lines 132-134.
pull_model(t) ==
    /\ pc[t] = "pull_model"
    /\ \/ /\ is_model_available
          /\ Return(t, "True")
          /\ UNCHANGED pull
       \/ /\ ~is_model_available
          /\ \E out \in pull_outputs :
                pull' = [pull EXCEPT ![t].status = "running", ![t].lines = out]
          /\ Goto(t, "pull_read")
       \/ /\ ~is_model_available
          /\ pull' = [pull EXCEPT ![t].status = "launch_failed"]
          /\ Return(t, "False")
    /\ UNCHANGED <<worker, process, children, service_up, model_present,
                   exe_exists, poll_i, calls, sdVars, pull_outputs, notSup>>

\* str.strip(), line 119: the text without its leading and trailing whitespace.
Whitespace == {" ", "\n"}

RECURSIVE lstrip(_)
lstrip(text) ==
    IF text = <<>> THEN <<>>
    ELSE IF Head(text) \in Whitespace THEN lstrip(Tail(text)) ELSE text

RECURSIVE rstrip(_)
rstrip(text) ==
    IF text = <<>> THEN <<>>
    ELSE IF text[Len(text)] \in Whitespace
            THEN rstrip(SubSeq(text, 1, Len(text) - 1))
            ELSE text

strip(text) == rstrip(lstrip(text))

\* pull_process.stdout.readline(), line 115: the next unread line with its
\* newline, '' at end of file. It blocks while the child runs and has
\* nothing more to say.
CanRead(t) ==
    pull[t].read < Len(pull[t].lines) \/ pull[t].status = "exited"

readline(t) ==
    IF pull[t].read < Len(pull[t].lines)
       THEN pull[t].lines[pull[t].read + 1]
       ELSE <<>>

\* A loop that stops as soon as the child has exited, read or not.
BreaksOnExit(text, exited) == exited

\* Line 116: output == '' and pull_process.poll() is not None.
BreaksLoop(text, exited) == text = <<>> /\ exited

\* return_code == 0 taken for granted.
AnyReturnCode(rc) == TRUE

\* Line 125: return_code == 0.
Succeeded(rc) == rc = 0

\* pull_model, lines 114-122: one turn of the loop that does not break. A
\* line that was read is stripped, printed and handed to the callback.
pull_readline(t) ==
    /\ pc[t] = "pull_read"
    /\ CanRead(t)
    /\ ~BreaksLoop(readline(t), pull[t].status = "exited")
    /\ pull' = [pull EXCEPT
                  ![t].read = IF readline(t) # <<>> THEN @ + 1 ELSE @,
                  ![t].delivered =
                      IF readline(t) # <<>> /\ pull[t].callback
                         THEN Append(@, strip(readline(t)))
                         ELSE @]
    /\ readline(t) # <<>>
    /\ UNCHANGED <<worker, process, children, service_up, model_present,
                   exe_exists, pc, poll_i, calls, result, sdVars, pull_outputs,
                   notSup>>

\* pull_model, lines 116-130: the loop breaks, the return code decides.
pull_break(t) ==
    /\ pc[t] = "pull_read"
    /\ CanRead(t)
    /\ BreaksLoop(readline(t), pull[t].status = "exited")
    /\ Return(t, IF Succeeded(pull[t].rc) THEN "True" ELSE "False")
    /\ model_present' = (model_present \/ (pull[t].rc = 0 /\ service_up))
    /\ UNCHANGED <<worker, process, children, service_up, exe_exists,
                   poll_i, calls, sdVars, pullVars, notSup>>

\* The 'ollama pull' child ends with return code rc; what it wrote stays in
\* the pipe.
pull_exits(t) ==
    /\ pc[t] = "pull_read"
    /\ pull[t].status = "running"
    /\ \E rc \in {0, 1} :
          pull' = [pull EXCEPT ![t].status = "exited", ![t].rc = rc]
    /\ UNCHANGED <<worker, process, children, service_up, model_present,
                   exe_exists, pc, poll_i, calls, result, sdVars, pull_outputs,
                   notSup>>

\* The service a running child serves starts answering the probe.
service_starts ==
    /\ worker = "ollama_manager"
    /\ ~service_up
    /\ \E c \in Children : children[c] = "running"
    /\ service_up' = TRUE
    /\ UNCHANGED <<worker, process, children, model_present, exe_exists,
                   pc, poll_i, calls, result, sdVars, pullVars, notSup>>

(***************************************************************************)
(* ollama_manager.py: shutdown, shutdown_ollama                            *)
(***************************************************************************)
SdLabels == {"sd_terminate", "sd_wait", "sd_kill", "sd_wait_killed", "sd_clear"}

Signal(c, what) == sent' = [sent EXCEPT ![c] = Append(@, what)]

\* shutdown(), lines 178-180, called on the manager: if self.process.
shutdown(t) ==
    /\ worker = "ollama_manager"
    /\ pc[t] = "idle"
    /\ manager
    /\ shutdowns[t] < MaxShutdowns
    /\ shutdowns' = [shutdowns EXCEPT ![t] = @ + 1]
    /\ IF HoldsHandle
          THEN /\ pc' = [pc EXCEPT ![t] = "sd_terminate"]
               /\ result' = [result EXCEPT ![t] = "pending"]
               /\ frames' = [frames EXCEPT ![t] = "shutdown"]
          ELSE /\ Return(t, "None")
               /\ UNCHANGED frames
    /\ UNCHANGED <<worker, process, children, service_up, model_present,
                   exe_exists, poll_i, calls, sent, manager, pullVars, notSup>>

\* shutdown_ollama(), lines 220-225: nothing without a manager; else
\* shutdown() and then _ollama_manager = None.
shutdown_ollama(t) ==
    /\ worker = "ollama_manager"
    /\ pc[t] = "idle"
    /\ shutdowns[t] < MaxShutdowns
    /\ shutdowns' = [shutdowns EXCEPT ![t] = @ + 1]
    /\ IF manager /\ HoldsHandle
          THEN /\ pc' = [pc EXCEPT ![t] = "sd_terminate"]
               /\ result' = [result EXCEPT ![t] = "pending"]
               /\ frames' = [frames EXCEPT ![t] = "shutdown_ollama"]
               /\ UNCHANGED manager
          ELSE /\ Return(t, "None")
               /\ manager' = FALSE
               /\ UNCHANGED frames
    /\ UNCHANGED <<worker, process, children, service_up, model_present,
                   exe_exists, poll_i, calls, sent, pullVars, notSup>>

\* A shutdown that waits without having asked the child to terminate.
wait_only(t) ==
    /\ pc[t] = "sd_terminate"
    /\ Goto(t, "sd_wait")
    /\ UNCHANGED <<worker, process, children, service_up, model_present,
                   exe_exists, poll_i, calls, sdVars, pullVars, notSup>>

\* Line 183: self.process.terminate(). An exception (OSError from the
\* system, AttributeError on a handle that is None) goes to lines 195-196.
sd_terminate(t) ==
    /\ pc[t] = "sd_terminate"
    /\ \/ /\ HoldsHandle
          /\ Signal(process, "terminate")
          /\ Goto(t, "sd_wait")
       \/ /\ Goto(t, "sd_clear")
          /\ UNCHANGED sent
    /\ UNCHANGED <<worker, process, children, service_up, model_present,
                   exe_exists, poll_i, calls, manager, shutdowns, frames,
                   pullVars, notSup>>

\* Lines 187-189: self.process.wait(timeout=10) returns when the child has
\* exited, raises TimeoutExpired when the 10 s pass and it still runs.
sd_wait(t) ==
    /\ pc[t] = "sd_wait"
    /\ HoldsHandle
    /\ IF children[process] = "exited"
          THEN /\ Goto(t, "sd_clear")
               /\ UNCHANGED sent
          ELSE /\ Signal(process, "timeout")
               /\ Goto(t, "sd_kill")
    /\ UNCHANGED <<worker, process, children, service_up, model_present,
                   exe_exists, poll_i, calls, manager, shutdowns, frames,
                   pullVars, notSup>>

\* Line 191: self.process.kill().
sd_kill(t) ==
    /\ pc[t] = "sd_kill"
    /\ HoldsHandle
    /\ Signal(process, "kill")
    /\ Goto(t, "sd_wait_killed")
    /\ UNCHANGED <<worker, process, children, service_up, model_present,
                   exe_exists, poll_i, calls, manager, shutdowns, frames,
                   pullVars, notSup>>

\* Line 192: self.process.wait(), no timeout: returns once the child has exited.
sd_wait_killed(t) ==
    /\ pc[t] = "sd_wait_killed"
    /\ HoldsHandle
    /\ children[process] = "exited"
    /\ Goto(t, "sd_clear")
    /\ UNCHANGED <<worker, process, children, service_up, model_present,
                   exe_exists, poll_i, calls, sdVars, pullVars, notSup>>

\* Line 198: self.process = None; shutdown returns, and shutdown_ollama
\* forgets the manager (line 225).
sd_clear(t) ==
    /\ pc[t] = "sd_clear"
    /\ process' = None
    /\ manager' = (manager /\ frames[t] # "shutdown_ollama")
    /\ frames' = [frames EXCEPT ![t] = "none"]
    /\ Return(t, "None")
    /\ UNCHANGED <<worker, children, service_up, model_present, exe_exists,
                   poll_i, calls, sent, shutdowns, pullVars, notSup>>

\* An 'ollama serve' child exits: on a signal it was sent, or by itself. The
\* service it may have been serving stops answering.
child_exits ==
    /\ worker = "ollama_manager"
    /\ \E c \in Children :
          /\ children[c] = "running"
          /\ children' = [children EXCEPT ![c] = "exited"]
    /\ service_up' \in {service_up, FALSE}
    /\ UNCHANGED <<worker, process, model_present, exe_exists, pc, poll_i,
                   calls, result, sdVars, pullVars, notSup>>

\* One line of the child's output, as readline returns it.
Lines == {<<"\n">>, <<"a", "\n">>, <<" ", "b", " ", "\n">>}

\* What an 'ollama pull' may print: up to MaxLines lines, the last one
\* possibly without its newline.
PullOutputs ==
    LET whole == UNION {[1..n -> Lines] : n \in 0..MaxLines}
    IN  whole \cup {Append(out, <<"c">>) : out \in {o \in whole : Len(o) < MaxLines}}

SupIdle ==
    /\ process = None
    /\ children = [c \in Children |-> "none"]
    /\ service_up = FALSE
    /\ model_present = FALSE
    /\ exe_exists = FALSE
    /\ pc = [t \in Threads |-> "idle"]
    /\ poll_i = [t \in Threads |-> 0]
    /\ calls = [t \in Threads |-> 0]
    /\ result = [t \in Threads |-> "none"]
    /\ sent = [c \in Children |-> <<>>]
    /\ manager = FALSE
    /\ shutdowns = [t \in Threads |-> 0]
    /\ frames = [t \in Threads |-> "none"]
    /\ pull = [t \in Threads |-> NoPull(FALSE)]
    /\ pull_outputs = {}

\* A fresh process: no manager yet (line 201) or one that launched nothing.
SupStart ==
    /\ process = None
    /\ children = [c \in Children |-> "none"]
    /\ service_up \in BOOLEAN
    /\ model_present \in BOOLEAN
    /\ exe_exists \in BOOLEAN
    /\ pc = [t \in Threads |-> "idle"]
    /\ poll_i = [t \in Threads |-> 0]
    /\ calls = [t \in Threads |-> 0]
    /\ result = [t \in Threads |-> "none"]
    /\ sent = [c \in Children |-> <<>>]
    /\ manager \in BOOLEAN
    /\ shutdowns = [t \in Threads |-> 0]
    /\ frames = [t \in Threads |-> "none"]
    /\ pull = [t \in Threads |-> NoPull(FALSE)]

\* Concurrent callers of initialize.
SupNext ==
    \/ \E t \in Threads : initialize(t)
    \/ \E t \in Threads : start_ollama_service(t)
    \/ \E t \in Threads : popen_serve(t)
    \/ \E t \in Threads : popen_raises(t)
    \/ \E t \in Threads : poll_attempt(t)
    \/ \E t \in Threads : poll_timeout(t)
    \/ \E t \in Threads : model_check(t)
    \/ \E t \in Threads : pull_model(t)
    \/ \E t \in Threads : pull_readline(t)
    \/ \E t \in Threads : pull_break(t)
    \/ \E t \in Threads : pull_exits(t)
    \/ service_starts

\* The one caller of the worker scripts: initialize_ai.main, process_page.
Caller == "t1"

\* What the manager itself does in shutdown.
ShutdownSteps ==
    \/ sd_terminate(Caller)
    \/ sd_wait(Caller)
    \/ sd_kill(Caller)
    \/ sd_wait_killed(Caller)
    \/ sd_clear(Caller)

\* One caller at a time: initialize, shutdown and shutdown_ollama in any order.
ManNext ==
    \/ initialize(Caller)
    \/ start_ollama_service(Caller)
    \/ popen_serve(Caller)
    \/ popen_raises(Caller)
    \/ poll_attempt(Caller)
    \/ poll_timeout(Caller)
    \/ model_check(Caller)
    \/ pull_model(Caller)
    \/ pull_readline(Caller)
    \/ pull_break(Caller)
    \/ pull_exits(Caller)
    \/ service_starts
    \/ shutdown(Caller)
    \/ shutdown_ollama(Caller)
    \/ ShutdownSteps
    \/ child_exits


(***************************************************************************)
(* apply_audio_redactions.py: apply_redactions                             *)
(***************************************************************************)
Min(a, b) == IF a <= b THEN a ELSE b
Max(a, b) == IF a >= b THEN a ELSE b

\* A time of t stands for the float t/2000 seconds (half milliseconds).
\* int(x * 1000), lines 26-27: the product truncated toward zero.
ToMs(t) == IF t >= 0 THEN t \div 2 ELSE -((-t) \div 2)

\* redaction['field'] raises KeyError when the dict has no such key.
Has(r, field) == field \in DOMAIN r

\* AudioSegment.from_file(audio_path): sample k is ms k-1 of the recording.
OriginalAudio == [k \in 1..MaxAudioMs |-> [kind |-> "original", of |-> k - 1]]

\* A generated segment of `duration` ms made for directive d (empty when
\* duration <= 0).
Segment(kind, duration, d) == [k \in 1..duration |-> [kind |-> kind, of |-> d]]

StartTimes == -2 .. 2 * MaxAudioMs
EndTimes == 0 .. 2 * MaxAudioMs + 2
Actions == {"silence", "beep", "anonymize"}

WellFormed == [start_time : StartTimes, end_time : EndTimes, action : Actions]

\* Directives with an unsupported action or with one field missing.
Malformed ==
    {[start_time |-> s, end_time |-> e, action |-> "mute"] : s \in {0, 2}, e \in {2, 4}}
    \cup {[start_time |-> s, end_time |-> e] : s \in {0, 2}, e \in {2, 4}}
    \cup {[end_time |-> e, action |-> "silence"] : e \in {2, 4}}
    \cup {[start_time |-> s, action |-> "silence"] : s \in {0, 2}}

Directives == WellFormed \cup Malformed

DirectiveLists == UNION {[1..n -> Directives] : n \in 0..MaxDirectives}

\* The order list.sort gives the first n elements: indices into list, each
\* element inserted behind every element that `before` puts in front of it.
RECURSIVE StableOrder(_, _, _)
StableOrder(list, n, descending) ==
    IF n = 0 THEN <<>>
    ELSE LET s == StableOrder(list, n - 1, descending)
             key == list[n].start_time
             p == Cardinality({j \in 1..Len(s) :
                     IF descending THEN list[s[j]].start_time >= key
                                   ELSE list[s[j]].start_time <= key})
         IN  SubSeq(s, 1, p) \o <<n>> \o SubSeq(s, p + 1, Len(s))

Reverse(s) == [k \in 1..Len(s) |-> s[Len(s) + 1 - k]]

\* The order a forgotten reverse=True would give.
sorted_forward(list) == StableOrder(list, Len(list), FALSE)

\* sorted(redactions, key=lambda r: r['start_time'], reverse=True), line 22:
\* a stable sort, equal keys keep their order.
sorted_reverse(list) == StableOrder(list, Len(list), TRUE)

\* reversed(sorted(redactions, key=...)), process_audio.py lines 284-287.
reversed_sorted(list) == Reverse(StableOrder(list, Len(list), FALSE))

\* The key function is called on every element: one missing key raises.
SortRaises(list) == \E k \in 1..Len(list) : ~Has(list[k], "start_time")

\* audio[:start_ms] + segment + audio[end_ms:], for 0 <= start_ms, end_ms <= len.
Replace(a, s_ms, e_ms, segment) ==
    SubSeq(a, 1, s_ms) \o segment \o SubSeq(a, e_ms + 1, Len(a))

\* start_ms = max(0, start_ms), line 30.
ClampStart(s_ms) == Max(0, s_ms)

\* An end left as computed at line 27.
ClampEndNone(length, e_ms) == e_ms

\* end_ms = min(len(audio), end_ms), line 31.
ClampEnd(length, e_ms) == Min(length, e_ms)

\* A loop with no test at line 33.
NeverSkipped(s_ms, e_ms) == FALSE

\* if start_ms >= end_ms: continue, lines 33-34.
IsSkipped(s_ms, e_ms) == s_ms >= e_ms

CurIndex == sorted_redactions[a_idx + 1]
Current == redactions[CurIndex]
start_ms == ClampStart(ToMs(Current.start_time))
end_ms == ClampEnd(Len(audio), ToMs(Current.end_time))

InLoop(w) ==
    /\ worker = w
    /\ a_pc = "loop"
    /\ a_idx < Len(sorted_redactions)

\* The exception handler of lines 96-98: nothing is exported.
Raise(e) ==
    /\ a_pc' = "done"
    /\ a_result' = "False"
    /\ a_error' = e

Iterated(entry) ==
    /\ a_idx' = a_idx + 1
    /\ a_log' = Append(a_log, entry)
    /\ UNCHANGED <<a_pc, a_result, a_error>>

Entry(verdict, kind, length, outcome) ==
    [d |-> CurIndex, verdict |-> verdict, start_ms |-> start_ms, end_ms |-> end_ms,
     kind |-> kind, len |-> length, outcome |-> outcome, before |-> Len(audio)]

NoFile == [state |-> "absent", len |-> 0, of |-> 0]

\* Lines 15-19: json.load of the directive file, AudioSegment.from_file.
load_inputs ==
    /\ worker \in {"apply_audio_redactions", "process_audio"}
    /\ a_pc = "load"
    /\ \/ /\ audio' = OriginalAudio
          /\ a_pc' = "sort"
          /\ UNCHANGED <<a_result, a_error>>
       \/ /\ Raise("load_failed")
          /\ UNCHANGED audio
    /\ UNCHANGED <<worker, redactions, sorted_redactions, a_idx, output, exported,
                   shifted_file, a_log, notAud>>

\* Line 22: the order is computed once, before the loop.
sort_redactions ==
    /\ worker = "apply_audio_redactions"
    /\ a_pc = "sort"
    /\ IF SortRaises(redactions)
          THEN /\ Raise("KeyError")
               /\ UNCHANGED sorted_redactions
          ELSE /\ sorted_redactions' = sorted_reverse(redactions)
               /\ a_pc' = "loop"
               /\ UNCHANGED <<a_result, a_error>>
    /\ UNCHANGED <<worker, redactions, audio, a_idx, output, exported,
                   shifted_file, a_log, notAud>>

\* Lines 26-27 or 36: the directive lacks end_time, or is not skipped and
\* lacks action: KeyError leaves the loop and the function.
process_raises ==
    /\ InLoop("apply_audio_redactions")
    /\ \/ ~Has(Current, "end_time")
       \/ /\ Has(Current, "end_time")
          /\ ~IsSkipped(start_ms, end_ms)
          /\ ~Has(Current, "action")
    /\ Raise("KeyError")
    /\ UNCHANGED <<worker, redactions, audio, sorted_redactions, a_idx, output,
                   exported, shifted_file, a_log, notAud>>

\* Lines 33-34: continue.
process_skip ==
    /\ InLoop("apply_audio_redactions")
    /\ Has(Current, "end_time")
    /\ IsSkipped(start_ms, end_ms)
    /\ Iterated(Entry("skipped", "none", 0, "none"))
    /\ UNCHANGED <<worker, redactions, audio, sorted_redactions, output,
                   exported, shifted_file, notAud>>

Applies(action) ==
    /\ InLoop("apply_audio_redactions")
    /\ Has(Current, "end_time")
    /\ ~IsSkipped(start_ms, end_ms)
    /\ Has(Current, "action")
    /\ Current.action = action

\* Lines 36-39.
process_silence ==
    /\ Applies("silence")
    /\ audio' = Replace(audio, start_ms, end_ms,
                        Segment("silence", end_ms - start_ms, CurIndex))
    /\ Iterated(Entry("replaced", "silence", end_ms - start_ms, "none"))
    /\ UNCHANGED <<worker, redactions, sorted_redactions, output, exported,
                   shifted_file, notAud>>

\* Lines 41-47.
process_beep ==
    /\ Applies("beep")
    /\ audio' = Replace(audio, start_ms, end_ms,
                        Segment("beep800", end_ms - start_ms, CurIndex))
    /\ Iterated(Entry("replaced", "beep800", end_ms - start_ms, "none"))
    /\ UNCHANGED <<worker, redactions, sorted_redactions, output, exported,
                   shifted_file, notAud>>

\* Lines 83-89: the except branch of the pitch shift.
FallbackBeep(outcome) ==
    /\ audio' = Replace(audio, start_ms, end_ms,
                        Segment("beep400", end_ms - start_ms, CurIndex))
    /\ Iterated(Entry("replaced", "beep400", end_ms - start_ms, outcome))

\* The lengths ffmpeg's asetrate/aresample/atempo chain may give a segment
\* of `length` ms: the product of the ratios is not exactly 1.
ShiftedLengths(length) == {n \in {length - 1, length, length + 1} : n >= 1}

\* What subprocess.run(ffmpeg ... -y temp_shifted.wav) leaves in the file.
\* Its return code is not looked at (no check=True, lines 63-67).
FfmpegWrites(file) ==
    {[how |-> "no_output", file |-> file],
     [how |-> "unreadable", file |-> [state |-> "unreadable", len |-> 0, of |-> 0]]}
    \cup {[how |-> "shifted", file |-> [state |-> "readable", len |-> n, of |-> CurIndex]] :
             n \in ShiftedLengths(end_ms - start_ms)}

\* Lines 49-89.
process_anonymize ==
    /\ Applies("anonymize")
    /\ \/ \E outcome \in {"export_raises", "run_raises"} :   \* lines 58, 63
             /\ FallbackBeep(outcome)
             /\ UNCHANGED shifted_file
       \/ \E w \in FfmpegWrites(shifted_file) :
             IF w.file.state = "readable"
                THEN \* lines 70-81: load, remove the temp files, replace
                     /\ audio' = Replace(audio, start_ms, end_ms,
                                         Segment("shifted", w.file.len, w.file.of))
                     /\ Iterated(Entry("replaced", "shifted", w.file.len, w.how))
                     /\ \E removed_ok \in BOOLEAN :
                           shifted_file' = IF removed_ok THEN NoFile ELSE w.file
                ELSE \* line 70 raises: the file is missing or cannot be decoded
                     /\ FallbackBeep(w.how)
                     /\ shifted_file' = w.file
    /\ UNCHANGED <<worker, redactions, sorted_redactions, output, exported, notAud>>

\* Lines 36-49: no branch of the if/elif chain matches, nothing happens.
process_unsupported ==
    /\ InLoop("apply_audio_redactions")
    /\ Has(Current, "end_time")
    /\ ~IsSkipped(start_ms, end_ms)
    /\ Has(Current, "action")
    /\ Current.action \notin Actions
    /\ Iterated(Entry("unsupported", "none", 0, "none"))
    /\ UNCHANGED <<worker, redactions, audio, sorted_redactions, output,
                   exported, shifted_file, notAud>>

\* Lines 91-94: audio.export(output_path), return True; or export raises.
export_audio ==
    /\ worker \in {"apply_audio_redactions", "process_audio"}
    /\ a_pc = "loop"
    /\ a_idx = Len(sorted_redactions)
    /\ \/ /\ output' = audio
          /\ exported' = TRUE
          /\ a_pc' = "done"
          /\ a_result' = "True"
          /\ UNCHANGED a_error
       \/ /\ Raise("export_failed")
          /\ UNCHANGED <<output, exported>>
    /\ UNCHANGED <<worker, redactions, audio, sorted_redactions, a_idx,
                   shifted_file, a_log, notAud>>

(***************************************************************************)
(* process_audio.py: apply_audio_redactions, the older redactor            *)
(***************************************************************************)
\* The position a slice bound v denotes in a sequence of `length` elements:
\* a negative bound counts from the end, a bound past the end is the end.
Position(length, v) == IF v < 0 THEN Max(0, length + v) ELSE Min(v, length)

\* a[lo:hi]
PySlice(a, lo, hi) == SubSeq(a, Position(Len(a), lo) + 1, Position(Len(a), hi))

\* Line 284-285: sorted ascending, iterated through reversed().
legacy_sort_redactions ==
    /\ worker = "process_audio"
    /\ a_pc = "sort"
    /\ IF SortRaises(redactions)
          THEN /\ Raise("KeyError")
               /\ UNCHANGED sorted_redactions
          ELSE /\ sorted_redactions' = reversed_sorted(redactions)
               /\ a_pc' = "loop"
               /\ UNCHANGED <<a_result, a_error>>
    /\ UNCHANGED <<worker, redactions, audio, a_idx, output, exported,
                   shifted_file, a_log, notAud>>

\* Lines 288-291: end_time or action is missing.
legacy_process_raises ==
    /\ InLoop("process_audio")
    /\ ~Has(Current, "end_time") \/ ~Has(Current, "action")
    /\ Raise("KeyError")
    /\ UNCHANGED <<worker, redactions, audio, sorted_redactions, a_idx, output,
                   exported, shifted_file, a_log, notAud>>

\* Lines 287-305: no clamp and no skip; anonymize is treated as silence.
legacy_process_redaction ==
    /\ InLoop("process_audio")
    /\ Has(Current, "end_time")
    /\ Has(Current, "action")
    /\ LET s == ToMs(Current.start_time)
           e == ToMs(Current.end_time)
           kind == CASE Current.action \in {"silence", "anonymize"} -> "silence"
                     [] Current.action = "beep" -> "beep800"
                     [] OTHER -> "none"
       IN  /\ audio' = IF kind = "none" THEN audio
                       ELSE PySlice(audio, 0, s) \o Segment(kind, e - s, CurIndex)
                            \o PySlice(audio, e, Len(audio))
           /\ Iterated([d |-> CurIndex,
                        verdict |-> IF kind = "none" THEN "unsupported" ELSE "replaced",
                        start_ms |-> s, end_ms |-> e, kind |-> kind,
                        len |-> Max(0, e - s), outcome |-> "none",
                        before |-> Len(audio)])
    /\ UNCHANGED <<worker, redactions, sorted_redactions, output, exported,
                   shifted_file, notAud>>

AudIdle ==
    /\ redactions = <<>>
    /\ audio = <<>>
    /\ sorted_redactions = <<>>
    /\ a_pc = "idle"
    /\ a_idx = 0
    /\ a_result = "pending"
    /\ a_error = "none"
    /\ output = <<>>
    /\ exported = FALSE
    /\ shifted_file = NoFile
    /\ a_log = <<>>

AudStart ==
    /\ redactions \in DirectiveLists
    /\ audio = <<>>
    /\ sorted_redactions = <<>>
    /\ a_pc = "load"
    /\ a_idx = 0
    /\ a_result = "pending"
    /\ a_error = "none"
    /\ output = <<>>
    /\ exported = FALSE
    /\ shifted_file = NoFile
    /\ a_log = <<>>

AudNext ==
    \/ load_inputs
    \/ sort_redactions
    \/ process_raises
    \/ process_skip
    \/ process_silence
    \/ process_beep
    \/ process_anonymize
    \/ process_unsupported
    \/ export_audio

LegacyNext ==
    \/ load_inputs
    \/ legacy_sort_redactions
    \/ legacy_process_raises
    \/ legacy_process_redaction
    \/ export_audio

(***************************************************************************)
(* C1. Two concurrent initialize calls on one manager, the probe failing,  *)
(* launch at most one 'ollama serve' child: while no thread has called     *)
(* initialize more than once, at most one child has been launched.         *)
(***************************************************************************)
C1_AtMostOneLaunch ==
    (\A t \in Threads : calls[t] <= 1) => Cardinality(Launched) <= 1

(***************************************************************************)
(* C13. initialize is idempotent: a call whose probe at line 46 finds the  *)
(* service answering goes on to the model test without launching a child   *)
(* and without touching the handle, and a call whose model test finds the  *)
(* model returns True without starting a pull, on the first call and on    *)
(* every later one.                                                        *)
(***************************************************************************)
C13_InitializeIdempotent ==
    [][\A t \in Threads :
          /\ (pc[t] = "start_ollama_service" /\ service_up /\ pc'[t] # pc[t]) =>
                /\ pc'[t] = "model_check"
                /\ process' = process
                /\ children' = children
                /\ pull' = pull
          /\ (pc[t] = "model_check" /\ service_up /\ model_present /\ pc'[t] # pc[t]) =>
                /\ pc'[t] = "idle"
                /\ result'[t] = "True"
                /\ process' = process
                /\ children' = children
                /\ pull'[t].status = "none"]_vars

\* Two calls in a row on a service that answers and has the model: both
\* returned True, no child was launched, no pull was started.
C13_Witness ==
    /\ worker = "ollama_manager"
    /\ calls[Caller] = 2
    /\ pc[Caller] = "idle"
    /\ result[Caller] = "True"
    /\ Launched = {}
    /\ process = None
    /\ pull[Caller].status = "none"

(***************************************************************************)
(* C14. start_ollama_service polls at most 30 times after the launch: the  *)
(* loop is left for the model test at the first probe that succeeds, and   *)
(* for a False result once 30 probes have failed; a failed probe adds one  *)
(* to the count, and the loop never goes back to launching.                *)
(***************************************************************************)
C14_BoundedPolling ==
    /\ [](\A t \in Threads : poll_i[t] \in 0..Attempts)
    /\ [][\A t \in Threads :
             /\ (pc[t] = "poll" /\ pc'[t] # "poll") =>
                   \/ /\ service_up
                      /\ poll_i[t] < Attempts
                      /\ pc'[t] = "model_check"
                   \/ /\ poll_i[t] = Attempts
                      /\ pc'[t] = "idle"
                      /\ result'[t] = "False"
             /\ (pc[t] = "poll" /\ pc'[t] = "poll" /\ poll_i'[t] # poll_i[t]) =>
                   /\ ~service_up
                   /\ poll_i'[t] = poll_i[t] + 1
             /\ (pc[t] = "poll" /\ (process' # process \/ Launched' # Launched)) =>
                   pc'[t] = pc[t]]_vars

\* The service never answered: the call returned False after the 30th probe,
\* having launched one child.
C14_Witness ==
    /\ worker = "ollama_manager"
    /\ pc[Caller] = "idle"
    /\ result[Caller] = "False"
    /\ poll_i[Caller] = Attempts
    /\ calls[Caller] = 1
    /\ Cardinality(Launched) = 1

(***************************************************************************)
(* C15. shutdown escalates in order: a kill is sent to a child only right  *)
(* after the 10 s wait on that child timed out, which comes right after    *)
(* the terminate request to that child; the wait times out only on a child *)
(* that still runs, and a wait that finds the child exited sends nothing   *)
(* and goes to clearing the handle.                                        *)
(***************************************************************************)
C15_GracefulThenForced ==
    /\ [](\A c \in Children : \A k \in 1..Len(sent[c]) :
             /\ sent[c][k] = "kill" =>
                   IF k >= 3
                      THEN sent[c][k - 1] = "timeout" /\ sent[c][k - 2] = "terminate"
                      ELSE FALSE
             /\ sent[c][k] = "timeout" =>
                   IF k >= 2 THEN sent[c][k - 1] = "terminate" ELSE FALSE)
    /\ [][\A t \in Threads :
             /\ (/\ pc[t] = "sd_wait"
                 /\ pc'[t] # pc[t]
                 /\ IF HoldsHandle THEN children[process] = "exited" ELSE FALSE) =>
                   /\ pc'[t] = "sd_clear"
                   /\ sent' = sent
             /\ \A c \in Children :
                   (Len(sent'[c]) > Len(sent[c]) /\ sent'[c][Len(sent'[c])] = "timeout") =>
                      children[c] = "running"]_vars

\* A child that ignored the terminate request was killed after the timeout
\* and the shutdown returned.
C15_Witness ==
    /\ worker = "ollama_manager"
    /\ pc[Caller] = "idle"
    /\ result[Caller] = "None"
    /\ process = None
    /\ \E c \in Children : sent[c] = <<"terminate", "timeout", "kill">>

(***************************************************************************)
(* C16. shutdown does not block for ever: whatever the child does, a       *)
(* shutdown that has started returns.                                      *)
(***************************************************************************)
C16_ShutdownReturns ==
    \A t \in Threads : (pc[t] \in SdLabels) ~> (pc[t] = "idle")

(***************************************************************************)
(* C17. shutdown and shutdown_ollama called while the manager holds no     *)
(* handle return at once with no terminate, no kill and no exception, and  *)
(* leave the handle None; every shutdown that returns leaves the handle    *)
(* None, so that a second shutdown in a row changes nothing.               *)
(***************************************************************************)
C17_SafeWhenNotRunning ==
    [][\A t \in Threads :
          /\ (pc[t] = "idle" /\ shutdowns'[t] # shutdowns[t] /\ process = None) =>
                /\ pc'[t] = "idle"
                /\ result'[t] = "None"
                /\ sent' = sent
                /\ children' = children
                /\ process' = None
          /\ (pc[t] \in SdLabels /\ pc'[t] = "idle") =>
                /\ process' = None
                /\ result'[t] = "None"]_vars

\* The manager was never started and shutdown was called twice: nothing was
\* sent to any child.
C17_Witness ==
    /\ worker = "ollama_manager"
    /\ calls[Caller] = 0
    /\ shutdowns[Caller] = 2
    /\ pc[Caller] = "idle"
    /\ result[Caller] = "None"
    /\ process = None
    /\ \A c \in Children : sent[c] = <<>>

Stripped(t) == [k \in 1..pull[t].read |-> strip(pull[t].lines[k])]

StartTimeOf(k) == redactions[a_log[k].d].start_time

IsPermutation(order, n) ==
    /\ Len(order) = n
    /\ \A d \in 1..n : \E k \in 1..n : order[k] = d

\* The recording has been decoded and the call did not end before the loop.
Loaded == a_pc \in {"sort", "loop"} \/ (a_pc = "done" /\ a_error # "load_failed")

RECURSIVE SumReplaced(_, _)
SumReplaced(log, n) ==
    IF n = 0 THEN 0
    ELSE SumReplaced(log, n - 1)
         + (IF log[n].verdict = "replaced"
               THEN log[n].len - (log[n].end_ms - log[n].start_ms)
               ELSE 0)

IsMalformed(r) ==
    IF Has(r, "start_time") /\ Has(r, "end_time") /\ Has(r, "action")
       THEN r.action \notin Actions
       ELSE TRUE

(***************************************************************************)
(* C2. Both audio redactors iterate the directives in descending order of  *)
(* start_time: no directive is iterated after one with a strictly smaller  *)
(* start_time. The order is a permutation of the whole list fixed before   *)
(* the first edit: the k-th iterated directive is the k-th of              *)
(* sorted_redactions, and the buffer is untouched until the order exists.  *)
(***************************************************************************)
C2_DescendingOrder ==
    /\ \A j, k \in 1..Len(a_log) : j < k => StartTimeOf(j) >= StartTimeOf(k)
    /\ \A k \in 1..Len(a_log) : a_log[k].d = sorted_redactions[k]
    /\ a_pc = "loop" =>
          /\ IsPermutation(sorted_redactions, Len(redactions))
          /\ \A j, k \in 1..Len(sorted_redactions) : j < k =>
                redactions[sorted_redactions[j]].start_time
                   >= redactions[sorted_redactions[k]].start_time
    /\ a_pc \in {"load", "sort"} => a_log = <<>> /\ audio \in {<<>>, OriginalAudio}

\* Two directives given in ascending order were both applied, latest first.
C2_Witness ==
    /\ worker = "apply_audio_redactions"
    /\ Len(redactions) = 2
    /\ Len(a_log) = 2
    /\ redactions[1].start_time < redactions[2].start_time
    /\ a_log[1].d = 2
    /\ a_log[1].verdict = "replaced"
    /\ a_log[2].verdict = "replaced"

(***************************************************************************)
(* C3. apply_redactions: at every point after the recording is loaded, the *)
(* buffer lasts the original duration minus the lengths of the replaced    *)
(* intervals plus the lengths of their replacements; when every directive  *)
(* of the list is a silence or a beep, the buffer keeps the original       *)
(* duration after each directive and in the exported artifact, overlapping *)
(* intervals included.                                                     *)
(***************************************************************************)
C3_Duration ==
    (worker = "apply_audio_redactions" /\ Loaded) =>
        /\ Len(audio) = MaxAudioMs + SumReplaced(a_log, Len(a_log))
        /\ (\A k \in 1..Len(redactions) :
               ~IsMalformed(redactions[k]) /\ redactions[k].action \in {"silence", "beep"})
           => /\ Len(audio) = MaxAudioMs
              /\ exported => Len(output) = MaxAudioMs

\* Two overlapping intervals were replaced, one of them by a pitch-shifted
\* segment of another length, and the result was exported.
C3_Witness ==
    /\ worker = "apply_audio_redactions"
    /\ exported
    /\ Len(a_log) = 2
    /\ a_log[1].verdict = "replaced"
    /\ a_log[2].verdict = "replaced"
    /\ a_log[2].end_ms > a_log[1].start_ms
    /\ a_log[1].kind = "shifted"
    /\ a_log[1].len # a_log[1].end_ms - a_log[1].start_ms
    /\ Len(output) # MaxAudioMs

\* The same, for silence and beep alone.
C3_WitnessSameLength ==
    /\ worker = "apply_audio_redactions"
    /\ exported
    /\ Len(a_log) = 2
    /\ a_log[1].kind = "silence"
    /\ a_log[2].kind = "beep800"
    /\ a_log[2].end_ms > a_log[1].start_ms

(***************************************************************************)
(* C4. apply_redactions: the iteration of a directive whose interval is    *)
(* inverted, or empty once clamped to the buffer, leaves the buffer as it  *)
(* is and goes on to the next directive; it ends nothing.                  *)
(***************************************************************************)
Collapsed ==
    Max(0, ToMs(Current.start_time)) >= Min(Len(audio), ToMs(Current.end_time))

C4_InvertedDropped ==
    [][(/\ InLoop("apply_audio_redactions")
        /\ Has(Current, "end_time")
        /\ Collapsed)
       => (/\ audio' = audio
           /\ a_idx' = a_idx + 1
           /\ a_pc' = "loop"
           /\ a_result' = "pending")]_vars

\* An inverted directive was dropped and the directive after it was applied.
C4_Witness ==
    /\ worker = "apply_audio_redactions"
    /\ Len(a_log) = 2
    /\ a_log[1].verdict = "skipped"
    /\ redactions[a_log[1].d].start_time > redactions[a_log[1].d].end_time
    /\ a_log[2].verdict = "replaced"
    /\ audio # OriginalAudio

(***************************************************************************)
(* C5. apply_redactions: every replaced range is                           *)
(* [max(0, start), min(content_duration, end)) with content_duration the   *)
(* duration of the original recording, whatever was applied before.        *)
(***************************************************************************)
C5_ClampedToOriginal ==
    \A k \in 1..Len(a_log) :
        (worker = "apply_audio_redactions" /\ a_log[k].verdict = "replaced") =>
            /\ a_log[k].start_ms = Max(0, ToMs(redactions[a_log[k].d].start_time))
            /\ a_log[k].end_ms = Min(MaxAudioMs, ToMs(redactions[a_log[k].d].end_time))

(***************************************************************************)
(* C6. apply_redactions: an anonymize directive whose pitch shift failed   *)
(* (the export raised, ffmpeg could not be run, ffmpeg failed and wrote no *)
(* output, the output cannot be decoded) has its interval replaced by the  *)
(* fallback beep of the interval's duration.                               *)
(***************************************************************************)
PitchShiftFailures == {"export_raises", "run_raises", "no_output", "unreadable"}

C6_FallbackBeep ==
    \A k \in 1..Len(a_log) :
        (/\ worker = "apply_audio_redactions"
         /\ a_log[k].verdict = "replaced"
         /\ redactions[a_log[k].d].action = "anonymize"
         /\ a_log[k].outcome \in PitchShiftFailures)
        => /\ a_log[k].kind = "beep400"
           /\ a_log[k].len = a_log[k].end_ms - a_log[k].start_ms

(***************************************************************************)
(* C7. apply_redactions: when exactly one directive of the list is         *)
(* malformed (start_time, end_time or action missing, or an unsupported    *)
(* action) and no file operation fails, the call exports the artifact,     *)
(* returns True and has iterated every other directive.                    *)
(***************************************************************************)
C7_MalformedSkipped ==
    (/\ worker = "apply_audio_redactions"
     /\ a_pc = "done"
     /\ a_error \notin {"load_failed", "export_failed"}
     /\ Cardinality({k \in 1..Len(redactions) : IsMalformed(redactions[k])}) = 1)
    => /\ a_result = "True"
       /\ exported
       /\ \A d \in 1..Len(redactions) :
             ~IsMalformed(redactions[d]) => \E k \in 1..Len(a_log) : a_log[k].d = d

(***************************************************************************)
(* export_pdf.py                                                           *)
(***************************************************************************)
Pages == 1..MaxPages

\* A directive is a dict: a key that is missing is outside its DOMAIN.
NoKeys == [k \in {} |-> 0]

AcceptedParts == {NoKeys} \cup {[accepted |-> b] : b \in BOOLEAN}
CategoryParts == {NoKeys} \cup {[category |-> c] : c \in {"PII", "FACES"}}

Coordinates ==
    [page : 0..MaxPages + 1, x : {0, 1}, y : {0}, width : {1}, height : {1}]
    \cup {[page |-> 1]}
    \cup {[x |-> 0, y |-> 0, width |-> 1, height |-> 1]}

CoordinateParts == {NoKeys} \cup {[coordinates |-> c] : c \in Coordinates}

PdfDirectives ==
    {a @@ c @@ xy : a \in AcceptedParts, c \in CategoryParts, xy \in CoordinateParts}

PdfDirectiveLists == UNION {[1..n -> PdfDirectives] : n \in 0..MaxDirectives}

\* A comprehension that stops at the first directive it does not keep: the
\* kept directives that come before any other one.
RECURSIVE KeptPrefix(_, _, _)
KeptPrefix(list, n, faces) ==
    IF n = 0 THEN <<>>
    ELSE IF \A k \in 1..n : (list[k].category = "FACES") = faces
            THEN Append(KeptPrefix(list, n - 1, faces), n)
            ELSE KeptPrefix(list, n - 1, faces)

\* [r for r in list if (r['category'] == 'FACES') == faces]: the indices of
\* the first n directives that are kept, in list order.
RECURSIVE Filter(_, _, _)
Filter(list, n, faces) ==
    IF n = 0 THEN <<>>
    ELSE IF (list[n].category = "FACES") = faces
            THEN Append(Filter(list, n - 1, faces), n)
            ELSE Filter(list, n - 1, faces)

\* redaction.get('accepted', True): a directive that does not say is applied.
AcceptedByDefault(r) == IF Has(r, "accepted") THEN r.accepted ELSE TRUE

\* redaction.get('accepted', False), lines 17 and 49.
Accepted(r) == IF Has(r, "accepted") THEN r.accepted ELSE FALSE

\* page_num < 0 or page_num >= len(doc), lines 23 and 55, page_num = page - 1.
PageOutOfRange(page) == page - 1 < 0 \/ page - 1 >= MaxPages

\* coords['page'], coords['x'], ... : what the routine reads before it edits.
CoordinatesRaise(r) ==
    IF ~Has(r, "coordinates") THEN TRUE
    ELSE IF ~Has(r.coordinates, "page") THEN TRUE
    ELSE /\ ~PageOutOfRange(r.coordinates.page)
         /\ \E f \in {"x", "y", "width", "height"} : ~Has(r.coordinates, f)

\* fitz.Rect(x, y, x + width, y + height), lines 29-34 and 61-66.
Rect(c) == [x0 |-> c.x, y0 |-> c.y, x1 |-> c.x + c.width, y1 |-> c.y + c.height]

PdfRaise(e) ==
    /\ p_pc' = "done"
    /\ p_result' = "False"
    /\ p_error' = e

\* Line 76: fitz.open(input_path).
open_document ==
    /\ worker = "export_pdf"
    /\ p_pc = "open"
    /\ \/ /\ p_pc' = "filter_text"
          /\ UNCHANGED <<p_result, p_error>>
       \/ PdfRaise("open_failed")
    /\ UNCHANGED <<worker, pdf_redactions, text_redactions, image_redactions,
                   annots, removed, drawn, p_idx, saved, notPdf>>

\* Line 79: [r for r in redactions if r['category'] != 'FACES'].
filter_text ==
    /\ worker = "export_pdf"
    /\ p_pc = "filter_text"
    /\ IF \E k \in 1..Len(pdf_redactions) : ~Has(pdf_redactions[k], "category")
          THEN /\ PdfRaise("KeyError")
               /\ UNCHANGED <<text_redactions, p_idx>>
          ELSE /\ text_redactions' = Filter(pdf_redactions, Len(pdf_redactions), FALSE)
               /\ p_pc' = "text_loop"
               /\ p_idx' = 0
               /\ UNCHANGED <<p_result, p_error>>
    /\ UNCHANGED <<worker, pdf_redactions, image_redactions, annots, removed,
                   drawn, saved, notPdf>>

TextCurrent == pdf_redactions[text_redactions[p_idx + 1]]

InTextLoop ==
    /\ worker = "export_pdf"
    /\ p_pc = "text_loop"
    /\ p_idx < Len(text_redactions)

\* apply_text_redactions, lines 17-18 and 23-24: continue.
text_continue ==
    /\ InTextLoop
    /\ \/ ~Accepted(TextCurrent)
       \/ /\ Accepted(TextCurrent)
          /\ ~CoordinatesRaise(TextCurrent)
          /\ PageOutOfRange(TextCurrent.coordinates.page)
    /\ p_idx' = p_idx + 1
    /\ UNCHANGED <<worker, pdf_redactions, text_redactions, image_redactions,
                   annots, removed, drawn, p_pc, p_result, p_error, saved, notPdf>>

\* apply_text_redactions, lines 20-34: a key is missing; the exception
\* leaves export_redacted_pdf through its handler, lines 92-94.
text_raises ==
    /\ InTextLoop
    /\ Accepted(TextCurrent)
    /\ CoordinatesRaise(TextCurrent)
    /\ PdfRaise("KeyError")
    /\ UNCHANGED <<worker, pdf_redactions, text_redactions, image_redactions,
                   annots, removed, drawn, p_idx, saved, notPdf>>

\* apply_text_redactions, lines 26-39: page.add_redact_annot(rect).
text_add_redact_annot ==
    /\ InTextLoop
    /\ Accepted(TextCurrent)
    /\ ~CoordinatesRaise(TextCurrent)
    /\ ~PageOutOfRange(TextCurrent.coordinates.page)
    /\ annots' = [annots EXCEPT ![TextCurrent.coordinates.page] =
                     Append(@, [d |-> text_redactions[p_idx + 1],
                                rect |-> Rect(TextCurrent.coordinates)])]
    /\ p_idx' = p_idx + 1
    /\ UNCHANGED <<worker, pdf_redactions, text_redactions, image_redactions,
                   removed, drawn, p_pc, p_result, p_error, saved, notPdf>>

\* apply_text_redactions, lines 42-43: the loop over the directives is over,
\* for page in doc: page.apply_redactions() starts.
text_loop_ends ==
    /\ worker = "export_pdf"
    /\ p_pc = "text_loop"
    /\ p_idx = Len(text_redactions)
    /\ p_pc' = "apply_loop"
    /\ p_idx' = 0
    /\ UNCHANGED <<worker, pdf_redactions, text_redactions, image_redactions,
                   annots, removed, drawn, p_result, p_error, saved, notPdf>>

\* Line 43: page.apply_redactions() removes the content under every
\* annotation of the page and removes the annotations.
page_apply_redactions ==
    /\ worker = "export_pdf"
    /\ p_pc = "apply_loop"
    /\ p_idx < MaxPages
    /\ removed' = [removed EXCEPT ![p_idx + 1] = @ \o annots[p_idx + 1]]
    /\ annots' = [annots EXCEPT ![p_idx + 1] = <<>>]
    /\ p_idx' = p_idx + 1
    /\ UNCHANGED <<worker, pdf_redactions, text_redactions, image_redactions,
                   drawn, p_pc, p_result, p_error, saved, notPdf>>

\* Line 83: [r for r in redactions if r['category'] == 'FACES'].
filter_images ==
    /\ worker = "export_pdf"
    /\ p_pc = "apply_loop"
    /\ p_idx = MaxPages
    /\ image_redactions' = Filter(pdf_redactions, Len(pdf_redactions), TRUE)
    /\ p_pc' = "image_loop"
    /\ p_idx' = 0
    /\ UNCHANGED <<worker, pdf_redactions, text_redactions, annots, removed,
                   drawn, p_result, p_error, saved, notPdf>>

ImageCurrent == pdf_redactions[image_redactions[p_idx + 1]]

InImageLoop ==
    /\ worker = "export_pdf"
    /\ p_pc = "image_loop"
    /\ p_idx < Len(image_redactions)

ImageApplies(r) == Accepted(r) /\ r.category = "FACES"

\* apply_image_redactions, lines 49-50 and 55-56: continue.
image_continue ==
    /\ InImageLoop
    /\ \/ ~ImageApplies(ImageCurrent)
       \/ /\ ImageApplies(ImageCurrent)
          /\ ~CoordinatesRaise(ImageCurrent)
          /\ PageOutOfRange(ImageCurrent.coordinates.page)
    /\ p_idx' = p_idx + 1
    /\ UNCHANGED <<worker, pdf_redactions, text_redactions, image_redactions,
                   annots, removed, drawn, p_pc, p_result, p_error, saved, notPdf>>

\* apply_image_redactions, lines 52-66: a key is missing.
image_raises ==
    /\ InImageLoop
    /\ ImageApplies(ImageCurrent)
    /\ CoordinatesRaise(ImageCurrent)
    /\ PdfRaise("KeyError")
    /\ UNCHANGED <<worker, pdf_redactions, text_redactions, image_redactions,
                   annots, removed, drawn, p_idx, saved, notPdf>>

\* apply_image_redactions, lines 58-69: page.draw_rect(rect, black).
image_draw_rect ==
    /\ InImageLoop
    /\ ImageApplies(ImageCurrent)
    /\ ~CoordinatesRaise(ImageCurrent)
    /\ ~PageOutOfRange(ImageCurrent.coordinates.page)
    /\ drawn' = [drawn EXCEPT ![ImageCurrent.coordinates.page] =
                    Append(@, [d |-> image_redactions[p_idx + 1],
                               rect |-> Rect(ImageCurrent.coordinates)])]
    /\ p_idx' = p_idx + 1
    /\ UNCHANGED <<worker, pdf_redactions, text_redactions, image_redactions,
                   annots, removed, p_pc, p_result, p_error, saved, notPdf>>

\* Lines 87-90: doc.save(output_path, garbage=4, deflate=True), return True.
save_document ==
    /\ worker = "export_pdf"
    /\ p_pc = "image_loop"
    /\ p_idx = Len(image_redactions)
    /\ \/ /\ saved' = Append(saved, [removed |-> removed, drawn |-> drawn])
          /\ p_pc' = "done"
          /\ p_result' = "True"
          /\ UNCHANGED p_error
       \/ /\ PdfRaise("save_failed")
          /\ UNCHANGED saved
    /\ UNCHANGED <<worker, pdf_redactions, text_redactions, image_redactions,
                   annots, removed, drawn, p_idx, notPdf>>

\* main, lines 98-116, run once more: the input is the document the export
\* before has saved, the directive list is the same. The pages come back as
\* they were saved (line 76); no annotation is pending on them.
export_again ==
    /\ worker = "export_pdf"
    /\ p_pc = "done"
    /\ p_result = "True"
    /\ Len(saved) < MaxExports
    /\ removed' = saved[Len(saved)].removed
    /\ drawn' = saved[Len(saved)].drawn
    /\ annots' = [p \in Pages |-> <<>>]
    /\ text_redactions' = <<>>
    /\ image_redactions' = <<>>
    /\ p_pc' = "open"
    /\ p_idx' = 0
    /\ p_result' = "pending"
    /\ UNCHANGED <<worker, pdf_redactions, p_error, saved, notPdf>>

PdfStart ==
    /\ pdf_redactions \in PdfDirectiveLists
    /\ text_redactions = <<>>
    /\ image_redactions = <<>>
    /\ annots = [p \in Pages |-> <<>>]
    /\ removed = [p \in Pages |-> <<>>]
    /\ drawn = [p \in Pages |-> <<>>]
    /\ p_pc = "open"
    /\ p_idx = 0
    /\ p_result = "pending"
    /\ p_error = "none"
    /\ saved = <<>>

PdfNext ==
    \/ open_document
    \/ filter_text
    \/ text_continue
    \/ text_raises
    \/ text_add_redact_annot
    \/ text_loop_ends
    \/ page_apply_redactions
    \/ filter_images
    \/ image_continue
    \/ image_raises
    \/ image_draw_rect
    \/ save_document

(***************************************************************************)
(* Claims about export_redacted_pdf.                                       *)
(***************************************************************************)
CoordinateFields == {"page", "x", "y", "width", "height"}

FullCoordinates(r) ==
    IF Has(r, "coordinates")
       THEN \A f \in CoordinateFields : Has(r.coordinates, f)
       ELSE FALSE

IsAccepted(r) == IF Has(r, "accepted") THEN r.accepted = TRUE ELSE FALSE

\* The directive lacks a field the PDF mode requires of it.
MissingField(r) == ~Has(r, "category") \/ (IsAccepted(r) /\ ~FullCoordinates(r))

\* An accepted directive with every field, on a page of the document.
Applicable(r) ==
    /\ IsAccepted(r)
    /\ Has(r, "category")
    /\ FullCoordinates(r)
    /\ IF FullCoordinates(r) THEN r.coordinates.page \in Pages ELSE FALSE

\* How many entries of the sequence of regions come from directive d.
Count(regions, d) == Cardinality({k \in 1..Len(regions) : regions[k].d = d})

RECURSIVE CountAll(_, _, _)
CountAll(byPage, n, d) ==
    IF n = 0 THEN 0 ELSE CountAll(byPage, n - 1, d) + Count(byPage[n], d)

PdfIoFailed == p_error \in {"open_failed", "save_failed"}

(***************************************************************************)
(* C8. export_redacted_pdf: when exactly one directive of the list lacks a *)
(* required field (category, or the coordinates or one of their components *)
(* on an accepted directive) and no file operation fails, the call saves   *)
(* the document, returns True and has applied every accepted, complete     *)
(* directive whose page exists.                                            *)
(***************************************************************************)
C8_MissingFieldSkipped ==
    (/\ worker = "export_pdf"
     /\ p_pc = "done"
     /\ ~PdfIoFailed
     /\ Cardinality({k \in 1..Len(pdf_redactions) : MissingField(pdf_redactions[k])}) = 1)
    => /\ p_result = "True"
       /\ saved # <<>>
       /\ \A d \in 1..Len(pdf_redactions) :
             Applicable(pdf_redactions[d]) =>
                CountAll(removed, MaxPages, d) + CountAll(drawn, MaxPages, d) = 1

(***************************************************************************)
(* C9. export_redacted_pdf: every redaction annotation, every removed      *)
(* region and every drawn box, in the document being edited and in the     *)
(* saved one, comes from a directive whose accepted field is true; a       *)
(* directive with accepted false or absent leaves no trace on any page.    *)
(***************************************************************************)
C9_OnlyAccepted ==
    /\ \A p \in DOMAIN removed :
          \A regions \in {annots[p], removed[p], drawn[p]} :
             \A k \in 1..Len(regions) : IsAccepted(pdf_redactions[regions[k].d])
    /\ \A s \in 1..Len(saved) : \A p \in Pages :
          \A regions \in {saved[s].removed[p], saved[s].drawn[p]} :
             \A k \in 1..Len(regions) : IsAccepted(pdf_redactions[regions[k].d])

\* A complete directive on page 1 that does not say accepted and an accepted
\* one went through a successful export; only the accepted one left a trace.
C9_Witness ==
    /\ worker = "export_pdf"
    /\ p_result = "True"
    /\ Len(pdf_redactions) = 2
    /\ ~Has(pdf_redactions[1], "accepted")
    /\ FullCoordinates(pdf_redactions[1])
    /\ pdf_redactions[1].coordinates.page = 1
    /\ Applicable(pdf_redactions[2])
    /\ CountAll(saved[1].removed, MaxPages, 2) + CountAll(saved[1].drawn, MaxPages, 2) = 1
    /\ CountAll(saved[1].removed, MaxPages, 1) + CountAll(saved[1].drawn, MaxPages, 1) = 0

(***************************************************************************)
(* C10. export_redacted_pdf: once the call is over (no file operation      *)
(* having failed), every accepted directive whose page exists has been     *)
(* applied exactly once by the routine of its category: a non-FACES        *)
(* directive as one committed content removal on its page and no drawn     *)
(* box, a FACES directive as one drawn box on its page and no content      *)
(* removal; an accepted directive whose page is out of range has changed   *)
(* nothing.                                                                *)
(***************************************************************************)
C10_RoutedOnce ==
    (worker = "export_pdf" /\ p_pc = "done" /\ ~PdfIoFailed) =>
        \A d \in 1..Len(pdf_redactions) :
            LET r == pdf_redactions[d] IN
            (IsAccepted(r) /\ Has(r, "category") /\ FullCoordinates(r)) =>
                IF r.coordinates.page \in Pages
                   THEN IF r.category # "FACES"
                           THEN /\ Count(removed[r.coordinates.page], d) = 1
                                /\ CountAll(removed, MaxPages, d) = 1
                                /\ CountAll(drawn, MaxPages, d) = 0
                                /\ CountAll(annots, MaxPages, d) = 0
                           ELSE /\ Count(drawn[r.coordinates.page], d) = 1
                                /\ CountAll(drawn, MaxPages, d) = 1
                                /\ CountAll(removed, MaxPages, d) = 0
                                /\ CountAll(annots, MaxPages, d) = 0
                   ELSE /\ CountAll(removed, MaxPages, d) = 0
                        /\ CountAll(drawn, MaxPages, d) = 0
                        /\ CountAll(annots, MaxPages, d) = 0

(***************************************************************************)
(* C11. export_redacted_pdf is idempotent: a second export of the saved    *)
(* document with the same directive list saves a document whose removed    *)
(* regions and opaque boxes are those of the first export, page by page;   *)
(* nothing is blacked a second time.                                       *)
(***************************************************************************)
C11_Idempotent ==
    (worker = "export_pdf" /\ Len(saved) >= 2) =>
        /\ saved[2].removed = saved[1].removed
        /\ saved[2].drawn = saved[1].drawn

\* The directives of the list that raise KeyError when their turn comes.
RaisesKeyError(r) ==
    IF ~Has(r, "category") THEN TRUE
    ELSE Accepted(r) /\ CoordinatesRaise(r)

\* The directives whose region page p must show: a function of the
\* directives alone, not of their place in the list.
RegionsOf(p, faces) ==
    {d \in 1..Len(pdf_redactions) :
        IF Applicable(pdf_redactions[d])
           THEN /\ pdf_redactions[d].coordinates.page = p
                /\ (pdf_redactions[d].category = "FACES") = faces
           ELSE FALSE}

\* The sequence of regions holds each directive of the set once, with the
\* rectangle of its coordinates, and nothing else.
HoldsExactly(regions, ds) ==
    /\ Len(regions) = Cardinality(ds)
    /\ \A d \in ds : Count(regions, d) = 1
    /\ \A k \in 1..Len(regions) :
          /\ regions[k].d \in ds
          /\ regions[k].rect = Rect(pdf_redactions[regions[k].d].coordinates)

(***************************************************************************)
(* C12. export_redacted_pdf: the outcome is a function of the directives,  *)
(* not of their order in the list. The call fails exactly when some        *)
(* directive raises on a missing key (or a file operation fails);          *)
(* otherwise every page of the saved document has lost exactly the regions *)
(* of the accepted non-FACES directives of that page and carries exactly   *)
(* the boxes of its accepted FACES directives. The removals of a page are  *)
(* committed in one pass: nothing is removed while the loop over the       *)
(* directives runs, and no annotation stays pending after the commit.      *)
(***************************************************************************)
C12_OrderIrrelevant ==
    worker = "export_pdf" =>
        /\ (p_pc = "done" /\ ~PdfIoFailed) =>
              /\ (p_result = "False") <=>
                    (\E d \in 1..Len(pdf_redactions) : RaisesKeyError(pdf_redactions[d]))
              /\ (p_result = "True") => Len(saved) = 1
        /\ \A s \in 1..Len(saved) : \A p \in Pages :
              /\ HoldsExactly(saved[s].removed[p], RegionsOf(p, FALSE))
              /\ HoldsExactly(saved[s].drawn[p], RegionsOf(p, TRUE))
        /\ \A p \in Pages :
              removed[p] # <<>> =>
                 /\ p_pc \in {"apply_loop", "image_loop", "done"}
                 /\ (p_pc = "apply_loop" => p_idx >= p)
                 /\ annots[p] = <<>>

\* A successful export of a FACES directive followed by a non-FACES one,
\* both accepted and on page 1, and each region is where it belongs.
C12_Witness ==
    /\ worker = "export_pdf"
    /\ p_result = "True"
    /\ Len(pdf_redactions) = 2
    /\ Applicable(pdf_redactions[1])
    /\ Applicable(pdf_redactions[2])
    /\ pdf_redactions[1].category = "FACES"
    /\ pdf_redactions[2].category = "PII"
    /\ pdf_redactions[1].coordinates.page = 1
    /\ pdf_redactions[2].coordinates.page = 1
    /\ pdf_redactions[1].coordinates.x # pdf_redactions[2].coordinates.x
    /\ Len(saved) = 1
    /\ Count(saved[1].removed[1], 2) = 1
    /\ Count(saved[1].drawn[1], 1) = 1

(***************************************************************************)
(* C28. Every child the manager launched and that has not exited is the    *)
(* one its process handle refers to: a start-up that timed out and is      *)
(* tried again leaves no earlier child running untracked, and once         *)
(* shutdown has cleared the handle no launched child is alive.             *)
(***************************************************************************)
C28_NoUntrackedChild ==
    worker = "ollama_manager" =>
        \A c \in Children : children[c] = "running" => process = c

(***************************************************************************)
(* C29. apply_redactions: for every list of well-formed directives with    *)
(* supported actions, overlapping or nested intervals and pitch-shifted    *)
(* replacements of another length included, no sample of the original      *)
(* recording whose position on the original timeline lies inside a         *)
(* non-empty clamped interval of the list is left in the exported output.  *)
(***************************************************************************)
\* Position p of the original timeline lies in the clamped interval of r.
Covers(r, p) ==
    /\ Max(0, ToMs(r.start_time)) <= p
    /\ p < Min(MaxAudioMs, ToMs(r.end_time))

C29_NoOriginalSurvives ==
    (/\ worker = "apply_audio_redactions"
     /\ exported
     /\ \A k \in 1..Len(redactions) : ~IsMalformed(redactions[k]))
    => \A n \in 1..Len(output) :
          output[n].kind = "original" =>
              \A k \in 1..Len(redactions) : ~Covers(redactions[k], output[n].of)

(***************************************************************************)
(* Texts. A text is a sequence of characters; a run of letters or digits   *)
(* whose length plays no part ("start_time", "null", "Here") stands as one *)
(* character. The fences are spelled out: they are cut by length.          *)
(***************************************************************************)
startswith(text, prefix) ==
    Len(text) >= Len(prefix) /\ SubSeq(text, 1, Len(prefix)) = prefix

endswith(text, suffix) ==
    /\ Len(text) >= Len(suffix)
    /\ SubSeq(text, Len(text) - Len(suffix) + 1, Len(text)) = suffix

\* text[n:] and text[:-n], n > 0.
DropFirst(text, n) == SubSeq(text, n + 1, Len(text))
DropLast(text, n) == SubSeq(text, 1, Len(text) - n)

\* text[a:b] for 0 <= a, 0 <= b.
Slice(text, a, b) == SubSeq(text, a + 1, Min(b, Len(text)))

\* str.find and str.rfind of one character: a 0-based index, -1 when absent.
find(text, ch) ==
    IF \E i \in 1..Len(text) : text[i] = ch
       THEN (CHOOSE i \in 1..Len(text) :
                text[i] = ch /\ \A j \in 1..(i - 1) : text[j] # ch) - 1
       ELSE -1

rfind(text, ch) ==
    IF \E i \in 1..Len(text) : text[i] = ch
       THEN (CHOOSE i \in 1..Len(text) :
                text[i] = ch /\ \A j \in (i + 1)..Len(text) : text[j] # ch) - 1
       ELSE -1

\* str.replace(old, new): every occurrence, left to right, not overlapping.
RECURSIVE replace(_, _, _)
replace(text, old, new) ==
    IF Len(text) < Len(old) THEN text
    ELSE IF startswith(text, old)
            THEN new \o replace(DropFirst(text, Len(old)), old, new)
            ELSE <<Head(text)>> \o replace(Tail(text), old, new)

\* needle in text, for strings.
IsSubstring(needle, text) ==
    \E i \in 0..(Len(text) - Len(needle)) :
        SubSeq(text, i + 1, i + Len(needle)) = needle

Quote == "\""
\* The backquote, by name.
Backquote == "<backquote>"
FenceJson == <<Backquote, Backquote, Backquote, "j", "s", "o", "n">>
Fence == <<Backquote, Backquote, Backquote>>

(***************************************************************************)
(* JSON values as Python holds them. Numbers are in thousandths.           *)
(***************************************************************************)
PyList(items) == [kind |-> "list", val |-> items]
PyDict(pairs) == [kind |-> "dict", val |-> pairs]
PyStr(chars) == [kind |-> "str", val |-> chars]
PyNum(n) == [kind |-> "num", val |-> n]
PyNone == [kind |-> "none", val |-> 0]
PyTrue == [kind |-> "bool", val |-> 1000]
\* An integer literal too long to be a float (float(x) raises OverflowError).
PyBigInt == [kind |-> "bigint", val |-> 0]

\* The literals of the replies that are one character of the text.
Atoms == {"null", "true", "1", "20000", "10...0"}

AtomValue(ch) ==
    CASE ch = "null" -> PyNone
      [] ch = "true" -> PyTrue
      [] ch = "1" -> PyNum(1000)
      [] ch = "20000" -> PyNum(20000000)
      [] OTHER -> PyBigInt

\* d[key] = value on a dict: in place when the key is there, else appended.
RECURSIVE DictSet(_, _, _)
DictSet(pairs, key, value) ==
    IF pairs = <<>> THEN <<[key |-> key, val |-> value]>>
    ELSE IF Head(pairs).key = key
            THEN <<[key |-> key, val |-> value]>> \o Tail(pairs)
            ELSE <<Head(pairs)>> \o DictSet(Tail(pairs), key, value)

HasKey(pairs, key) == \E i \in 1..Len(pairs) : pairs[i].key = key

DictGet(pairs, key) == pairs[CHOOSE i \in 1..Len(pairs) : pairs[i].key = key].val

(***************************************************************************)
(* json.loads: a parse of text from position i is [ok, val, pos], pos the  *)
(* position after the value.                                               *)
(***************************************************************************)
Failed == [ok |-> FALSE, val |-> PyNone, pos |-> 0]
Parsed(value, pos) == [ok |-> TRUE, val |-> value, pos |-> pos]

RECURSIVE SkipWs(_, _)
SkipWs(text, i) ==
    IF i <= Len(text) /\ text[i] \in Whitespace THEN SkipWs(text, i + 1) ELSE i

\* The position of the quote that closes the string whose content starts at i.
RECURSIVE ClosingQuote(_, _)
ClosingQuote(text, i) ==
    IF i > Len(text) THEN 0
    ELSE IF text[i] = Quote THEN i ELSE ClosingQuote(text, i + 1)

ParseString(text, i) ==
    LET close == ClosingQuote(text, i + 1)
    IN  IF close = 0 THEN Failed
        ELSE Parsed(PyStr(SubSeq(text, i + 1, close - 1)), close + 1)

RECURSIVE ParseValue(_, _)
RECURSIVE ParseElements(_, _, _)
RECURSIVE ParseMembers(_, _, _)

\* The elements of an array from position i on, acc those already parsed.
ParseElements(text, i, acc) ==
    LET v == ParseValue(text, i)
        k == SkipWs(text, v.pos)
    IN  IF ~v.ok \/ k > Len(text) THEN Failed
        ELSE IF text[k] = "]" THEN Parsed(PyList(Append(acc, v.val)), k + 1)
        ELSE IF text[k] = ","
                THEN ParseElements(text, SkipWs(text, k + 1), Append(acc, v.val))
                ELSE Failed

\* The members of an object from position i on.
ParseMembers(text, i, acc) ==
    IF i > Len(text) THEN Failed
    ELSE IF text[i] # Quote THEN Failed
    ELSE LET key == ParseString(text, i)
             colon == SkipWs(text, key.pos)
         IN  IF ~key.ok \/ colon > Len(text) THEN Failed
             ELSE IF text[colon] # ":" THEN Failed
             ELSE LET v == ParseValue(text, SkipWs(text, colon + 1))
                      k == SkipWs(text, v.pos)
                      pairs == DictSet(acc, key.val.val, v.val)
                  IN  IF ~v.ok \/ k > Len(text) THEN Failed
                      ELSE IF text[k] = "}" THEN Parsed(PyDict(pairs), k + 1)
                      ELSE IF text[k] = ","
                              THEN ParseMembers(text, SkipWs(text, k + 1), pairs)
                              ELSE Failed

ParseValue(text, i) ==
    IF i > Len(text) THEN Failed
    ELSE IF text[i] = "["
            THEN LET j == SkipWs(text, i + 1)
                 IN  IF j > Len(text) THEN Failed
                     ELSE IF text[j] = "]" THEN Parsed(PyList(<<>>), j + 1)
                     ELSE ParseElements(text, j, <<>>)
    ELSE IF text[i] = "{"
            THEN LET j == SkipWs(text, i + 1)
                 IN  IF j > Len(text) THEN Failed
                     ELSE IF text[j] = "}" THEN Parsed(PyDict(<<>>), j + 1)
                     ELSE ParseMembers(text, j, <<>>)
    ELSE IF text[i] = Quote THEN ParseString(text, i)
    ELSE IF text[i] \in Atoms THEN Parsed(AtomValue(text[i]), i + 1)
    ELSE Failed

\* json.loads(text): one value and nothing but whitespace around it; ok is
\* FALSE where Python raises JSONDecodeError.
loads(text) ==
    LET v == ParseValue(text, SkipWs(text, 1))
    IN  IF v.ok /\ SkipWs(text, v.pos) = Len(text) + 1 THEN v ELSE Failed

(***************************************************************************)
(* process_audio.py: convert_timestamp_to_seconds                          *)
(***************************************************************************)
Digits == <<"0", "1", "2", "3", "4", "5", "6", "7", "8", "9">>

IsDigit(ch) == \E d \in 1..10 : Digits[d] = ch

DigitValue(ch) == (CHOOSE d \in 1..10 : Digits[d] = ch) - 1

\* The number a run of digits writes; the empty run is 0.
RECURSIVE DigitsValue(_)
DigitsValue(chars) ==
    IF chars = <<>> THEN 0
    ELSE 10 * DigitsValue(SubSeq(chars, 1, Len(chars) - 1))
            + DigitValue(chars[Len(chars)])

AllDigits(chars) == \A i \in 1..Len(chars) : IsDigit(chars[i])

\* int(part): -1 stands for ValueError. Surrounding whitespace is allowed.
int(part) ==
    LET chars == strip(part)
    IN  IF chars # <<>> /\ AllDigits(chars) THEN DigitsValue(chars) ELSE -1

\* float(part), in thousandths: digits, at most one point, at most three
\* decimals in the texts of the model; -1 stands for ValueError.
float(part) ==
    LET chars == strip(part)
        dot == find(chars, ".")
        whole == IF dot = -1 THEN chars ELSE Slice(chars, 0, dot)
        frac == IF dot = -1 THEN <<>> ELSE DropFirst(chars, dot + 1)
        padded == (frac \o <<"0", "0", "0">>)
    IN  IF /\ AllDigits(whole)
           /\ AllDigits(frac)
           /\ Len(frac) <= 3
           /\ (whole # <<>> \/ frac # <<>>)
           THEN 1000 * DigitsValue(whole) + DigitsValue(SubSeq(padded, 1, 3))
           ELSE -1

\* str.split(":").
RECURSIVE split(_)
split(chars) ==
    LET at == find(chars, ":")
    IN  IF at = -1 THEN <<chars>>
        ELSE <<Slice(chars, 0, at)>> \o split(DropFirst(chars, at + 1))

\* Lines 87-125. The result is [raised, val]; raised is TRUE where an
\* exception leaves the function (OverflowError is not among those of
\* line 121).
Converted(n) == [raised |-> FALSE, val |-> PyNum(n)]

convert_timestamp_to_seconds(timestamp_str) ==
    IF timestamp_str.kind = "bigint" THEN [raised |-> TRUE, val |-> PyNone]
    ELSE IF timestamp_str.kind \in {"num", "bool"}
            THEN IF 0 <= timestamp_str.val /\ timestamp_str.val <= 10000000
                    THEN Converted(timestamp_str.val)
                    ELSE Converted(0)
    ELSE IF timestamp_str.kind = "str"
            THEN IF find(timestamp_str.val, ":") # -1
                    THEN LET parts == split(timestamp_str.val)
                         IN  IF Len(parts) # 3 THEN Converted(0)
                             ELSE LET hours == int(parts[1])
                                      minutes == int(parts[2])
                                      seconds == float(parts[3])
                                  IN  IF hours = -1 \/ minutes = -1 \/ seconds = -1
                                         THEN Converted(0)
                                      ELSE IF ~(/\ hours <= 23
                                                /\ minutes <= 59
                                                /\ seconds <= 59999)
                                         THEN Converted(0)
                                      ELSE Converted(hours * 3600000
                                                     + minutes * 60000 + seconds)
                    ELSE LET number == float(timestamp_str.val)
                         IN  IF number = -1 \/ number > 10000000
                                THEN Converted(0)
                                ELSE Converted(number)
    ELSE Converted(0)

(***************************************************************************)
(* process_audio.py: analyze_transcript_for_pii, lines 172-275             *)
(***************************************************************************)
Returned(value) == [raised |-> FALSE, val |-> value]
Raised == [raised |-> TRUE, val |-> PyNone]

\* 'key' in item, lines 205, 210, 216: "TypeError" on a value that is no
\* container, else whether the key is found.
KeyIn(key, item) ==
    IF item.kind = "dict" THEN (IF HasKey(item.val, <<key>>) THEN "yes" ELSE "no")
    ELSE IF item.kind = "list"
            THEN (IF \E i \in 1..Len(item.val) : item.val[i] = PyStr(<<key>>)
                     THEN "yes" ELSE "no")
    ELSE IF item.kind = "str"
            THEN (IF IsSubstring(<<key>>, item.val) THEN "yes" ELSE "no")
    ELSE "TypeError"

\* Lines 205-207 and 210-212: one timestamp field of one item.
ConvertField(state, key) ==
    IF state.raised THEN state
    ELSE LET found == KeyIn(key, state.val)
         IN  IF found = "TypeError" THEN Raised
             ELSE IF found = "no" THEN state
             ELSE IF state.val.kind # "dict" THEN Raised    \* item['key'] on a list or str
             ELSE LET seconds == convert_timestamp_to_seconds(DictGet(state.val.val, <<key>>))
                  IN  IF seconds.raised THEN Raised
                      ELSE Returned(PyDict(DictSet(state.val.val, <<key>>, seconds.val)))

\* Lines 216-220: a confidence that is a string becomes a float, 0.8 when
\* it is not a number.
ConvertConfidence(state) ==
    IF state.raised THEN state
    ELSE LET found == KeyIn("confidence", state.val)
         IN  IF found = "TypeError" THEN Raised
             ELSE IF found = "no" THEN state
             ELSE IF state.val.kind # "dict" THEN Raised
             ELSE LET confidence == DictGet(state.val.val, <<"confidence">>)
                  IN  IF confidence.kind # "str" THEN state
                      ELSE Returned(PyDict(DictSet(state.val.val, <<"confidence">>,
                               PyNum(IF float(confidence.val) = -1
                                        THEN 800 ELSE float(confidence.val)))))

\* The body of the loops of lines 204-220 and 241-251, for one item.
NormalizeItem(item) ==
    ConvertConfidence(ConvertField(ConvertField(Returned(item), "start_time"),
                                   "end_time"))

\* The loop over the first n items: an exception ends it.
RECURSIVE NormalizeItems(_, _)
NormalizeItems(items, n) ==
    IF n = 0 THEN Returned(<<>>)
    ELSE LET before == NormalizeItems(items, n - 1)
             this == NormalizeItem(items[n])
         IN  IF before.raised \/ this.raised THEN Raised
             ELSE Returned(Append(before.val, this.val))

\* Lines 200-226 and 239-257: what is done with a parsed value.
Sanitized(value) ==
    IF value.kind # "list" THEN Returned(PyList(<<>>))
    ELSE LET items == NormalizeItems(value.val, Len(value.val))
         IN  IF items.raised THEN Raised ELSE Returned(PyList(items.val))

\* Lines 182-194: the fences are removed.
CleanedReply(ai_response) ==
    LET stripped == strip(ai_response)
        unfenced ==
            IF startswith(stripped, FenceJson)
               THEN LET rest == DropFirst(stripped, 7)
                    IN  IF endswith(rest, Fence) THEN DropLast(rest, 3) ELSE rest
            ELSE IF startswith(stripped, Fence)
               THEN LET rest == DropFirst(stripped, 3)
                    IN  IF endswith(rest, Fence) THEN DropLast(rest, 3) ELSE rest
            ELSE stripped
    IN  strip(unfenced)

\* Lines 232-236: the text from the first '[' to the last ']'; no text when
\* the test of line 235 fails.
ExtractedArray(cleaned_response) ==
    LET start_idx == find(cleaned_response, "[")
        end_idx == rfind(cleaned_response, "]") + 1
    IN  IF start_idx # -1 /\ end_idx > start_idx
           THEN Slice(cleaned_response, start_idx, end_idx)
           ELSE <<>>

\* Lines 172-275. The handler of line 272 turns every exception that is not
\* a JSONDecodeError into an exception of its own (line 275).
analyze_transcript_for_pii(response) ==
    IF response.kind = "none" THEN Returned(PyList(<<>>))
    ELSE LET cleaned_response == CleanedReply(response.val)
             first == loads(cleaned_response)
             second == loads(ExtractedArray(cleaned_response))
         IN  IF first.ok THEN Sanitized(first.val)
             ELSE IF second.ok THEN Sanitized(second.val)
             ELSE Returned(PyList(<<>>))

(***************************************************************************)
(* process_page.py: parse_model_response, lines 144-179                    *)
(***************************************************************************)
\* Lines 148-154.
CleanedPageReply(response_text) ==
    LET stripped == strip(response_text)
        a == IF startswith(stripped, FenceJson) THEN DropFirst(stripped, 7) ELSE stripped
        b == IF startswith(a, Fence) THEN DropFirst(a, 3) ELSE a
    IN  IF endswith(b, Fence) THEN DropLast(b, 3) ELSE b

\* Lines 167-171.
Repaired(json_text) ==
    replace(replace(replace(replace(replace(json_text,
        <<",", "\n", "}">>, <<"\n", "}">>),
        <<",", "\n", "]">>, <<"\n", "]">>),
        <<",", "]">>, <<"]">>),
        <<",", "}">>, <<"}">>),
        <<"}", "\n", " ", " ", "{">>, <<"}", ",", "\n", " ", " ", "{">>)

\* Every exception, a None reply's AttributeError included, is caught at
\* line 176 and gives [].
parse_model_response(response) ==
    IF response.kind = "none" THEN Returned(PyList(<<>>))
    ELSE LET cleaned_response == CleanedPageReply(response.val)
             start_idx == find(cleaned_response, "[")
             end_idx == rfind(cleaned_response, "]")
         IN  IF start_idx = -1 \/ end_idx = -1 THEN Returned(PyList(<<>>))
             ELSE LET parsed == loads(Repaired(Slice(cleaned_response,
                                                     start_idx, end_idx + 1)))
                  IN  IF parsed.ok THEN Returned(parsed.val)
                      ELSE Returned(PyList(<<>>))

(***************************************************************************)
(* The replies of the model.                                               *)
(***************************************************************************)
Str(chars) == <<Quote>> \o chars \o <<Quote>>
Member(key, value_text) == <<"{">> \o Str(<<key>>) \o <<":">> \o value_text \o <<"}">>

TimeTexts ==
    { <<"1">>, <<"20000">>, <<"null">>, <<"10...0">>, <<"[", "]">>,
      Str(<<"0", "0", ":", "0", "1", ":", "0", "1", ".", "6", "4">>),
      Str(<<"2", "5", ":", "0", "0", ":", "0", "0">>),
      Str(<<"1", ".", "5">>),
      Str(<<"soon">>) }

\* Objects: the last one has a string value that reads a,]
ObjectTexts ==
    { Member("text", Str(<<"a">>)),
      Member("confidence", Str(<<"0", ".", "9">>)),
      Member("confidence", Str(<<"high">>)),
      Member("text", Str(<<"a", ",", "]">>)) }
    \cup {Member("start_time", t) : t \in TimeTexts}

ItemTexts ==
    { <<"1">>, <<"null">>, Str(<<"x">>), Str(<<"start_time">>),
      <<"[", Quote, "end_time", Quote, "]">> }
    \cup ObjectTexts

RECURSIVE Joined(_, _)
Joined(items, n) ==
    IF n = 0 THEN <<>>
    ELSE IF n = 1 THEN items[1]
    ELSE Joined(items, n - 1) \o <<",">> \o items[n]

ArrayTexts ==
    {<<"[">> \o Joined(items, Len(items)) \o <<"]">> :
        items \in UNION {[1..n -> ItemTexts] : n \in 0..MaxItems}}

\* Arrays in need of repair: two objects with no comma between them, and a
\* comma before the closing bracket or brace.
ObjA == Member("a", <<"1">>)
ObjB == Member("b", <<"null">>)
Separators == {<<>>, <<" ">>, <<"\n">>, <<"\n", " ", " ">>}
AdjacentObjects(sep) == <<"[">> \o ObjA \o sep \o ObjB \o <<"]">>
TrailingInArray == <<"[">> \o ObjA \o <<",", "]">>
TrailingInObject == <<"[", "{">> \o Str(<<"a">>) \o <<":", "1", ",", "}", "]">>
RepairTexts ==
    {AdjacentObjects(sep) : sep \in Separators}
        \cup {TrailingInArray, TrailingInObject}

\* Texts that are no JSON array, or none at all.
OtherTexts ==
    { <<>>, <<"Here">>, <<"1">>, <<"{", "}">>, Str(<<"x">>),
      <<"[", "1", ",", "]">>, <<"[", "1">>, <<"]", " ", "[">>,
      <<"[", "{", "}", "\n", " ", " ", "{", "}", "]">> }
    \cup RepairTexts

Fenced(body) == FenceJson \o <<"\n">> \o body \o <<"\n">> \o Fence

Wrapped(body) ==
    { body,
      Fenced(body),
      Fence \o body \o Fence,
      <<"Here", ":", " ">> \o body \o <<" ", "ok">> }

NoReply == [kind |-> "none", val |-> <<>>]

Replies ==
    {NoReply} \cup
    {[kind |-> "text", val |-> text] :
        text \in UNION {Wrapped(body) : body \in ArrayTexts \cup OtherTexts}}

\* process_page.py, line 174 and the callers of parse_model_response.
call_parse_model_response ==
    /\ worker = "sanitizer"
    /\ san_pc = "start"
    /\ san_pc' = "parse_model_response"
    /\ san_out' = parse_model_response(reply)
    /\ UNCHANGED <<worker, reply, notSan>>

\* process_audio.py, lines 170-275.
call_analyze_transcript_for_pii ==
    /\ worker = "sanitizer"
    /\ san_pc = "start"
    /\ san_pc' = "analyze_transcript_for_pii"
    /\ san_out' = analyze_transcript_for_pii(reply)
    /\ UNCHANGED <<worker, reply, notSan>>

SanIdle ==
    /\ reply = NoReply
    /\ san_pc = "idle"
    /\ san_out = Returned(PyNone)

SanStart ==
    /\ reply \in Replies
    /\ san_pc = "start"
    /\ san_out = Returned(PyNone)

SanNext ==
    \/ call_parse_model_response
    \/ call_analyze_transcript_for_pii

\* The reply holds no array the sanitizer that ran can parse.
NoArrayParsed ==
    IF reply.kind = "none" THEN TRUE
    ELSE IF san_pc = "analyze_transcript_for_pii"
            THEN LET cleaned_response == CleanedReply(reply.val)
                 IN  IF loads(cleaned_response).ok
                        THEN loads(cleaned_response).val.kind # "list"
                        ELSE ~loads(ExtractedArray(cleaned_response)).ok
    ELSE LET cleaned_response == CleanedPageReply(reply.val)
         IN  ~loads(Repaired(Slice(cleaned_response, Max(0, find(cleaned_response, "[")),
                                   rfind(cleaned_response, "]") + 1))).ok

(***************************************************************************)
(* C20. The response sanitizers never raise: for every reply,              *)
(* parse_model_response and analyze_transcript_for_pii return a list, and  *)
(* the empty list when the reply holds no array they can parse.            *)
(***************************************************************************)
C20_SanitizerNeverRaises ==
    (worker = "sanitizer" /\ san_pc # "start") =>
        /\ ~san_out.raised
        /\ san_out.val.kind = "list"
        /\ NoArrayParsed => san_out.val = PyList(<<>>)

\* The arrays of objects, as texts.
ObjectArrayTexts ==
    {<<"[">> \o Joined(items, Len(items)) \o <<"]">> :
        items \in UNION {[1..n -> ObjectTexts] : n \in 0..MaxItems}}

(***************************************************************************)
(* C21. Round trip: for every well-formed array of objects A, the text of  *)
(* A inside a json fence is sanitized to an array equal to A, whatever the *)
(* characters of its string values.                                        *)
(***************************************************************************)
C21_RoundTrip ==
    (worker = "sanitizer" /\ san_pc \in {"parse_model_response",
                                         "analyze_transcript_for_pii"}) =>
        \A body \in ObjectArrayTexts :
            (reply.kind = "text" /\ reply.val = Fenced(body)) =>
                san_out = Returned(loads(body).val)

(***************************************************************************)
(* C22. Repair: an array of two objects with no comma between them,        *)
(* whatever whitespace separates them, is recovered as the array of the    *)
(* two; a comma immediately before the closing ']' or '}' is removed.      *)
(***************************************************************************)
C22_Repaired ==
    (worker = "sanitizer" /\ reply.kind = "text"
        /\ san_pc \in {"parse_model_response", "analyze_transcript_for_pii"}) =>
        /\ \A sep \in Separators :
              reply.val = AdjacentObjects(sep) =>
                  san_out = Returned(PyList(<<loads(ObjA).val, loads(ObjB).val>>))
        /\ reply.val \in {TrailingInArray, TrailingInObject} =>
              san_out = Returned(PyList(<<loads(ObjA).val>>))

(***************************************************************************)
(* convert_timestamp_to_seconds on its own: reply holds the value passed.  *)
(***************************************************************************)
Clock(h, m, sec) == PyStr(h \o <<":">> \o m \o <<":">> \o sec)

HourTexts == {<<"0", "0">>, <<"2", "3">>, <<"2", "4">>, <<"2", "5">>, <<"x">>, <<>>}
MinuteTexts == {<<"0", "0">>, <<"5", "9">>, <<"6", "0">>}
SecondTexts ==
    { <<"0", "0">>, <<"0", "1", ".", "6", "4", "0">>, <<"5", "9">>,
      <<"5", "9", ".", "9", "9", "9">>, <<"6", "0">>, <<"x">> }

Timestamps ==
    { PyNum(0), PyNum(1640), PyNum(10000000), PyNum(10000001), PyNum(-1000),
      PyBigInt, PyNone, PyTrue, PyList(<<>>), PyDict(<<>>),
      PyStr(<<>>), PyStr(<<"soon">>), PyStr(<<"1", ".", "5">>),
      PyStr(<<"1", "0", "0", "0", "0">>), PyStr(<<"1", "0", "0", "0", "1">>),
      PyStr(<<"0", "0", ":", "0", "1">>),
      PyStr(<<"0", "0", ":", "0", "0", ":", "0", "1", ":", "0", "0">>) }
    \cup {Clock(h, m, sec) : h \in HourTexts, m \in MinuteTexts, sec \in SecondTexts}

\* process_audio.py, lines 206, 211, 243, 246: the calls of the function.
call_convert_timestamp_to_seconds ==
    /\ worker = "timestamp"
    /\ san_pc = "start"
    /\ san_pc' = "convert_timestamp_to_seconds"
    /\ san_out' = convert_timestamp_to_seconds(reply)
    /\ UNCHANGED <<worker, reply, notSan>>

TsStart ==
    /\ reply \in Timestamps
    /\ san_pc = "start"
    /\ san_out = Returned(PyNone)

\* A clock text H:M:S with 0 <= H <= 23, 0 <= M <= 59, 0 <= S < 60.
IsClock(chars) ==
    /\ Len(split(chars)) = 3
    /\ int(split(chars)[1]) \in 0..23
    /\ int(split(chars)[2]) \in 0..59
    /\ float(split(chars)[3]) \in 0..59999

\* What the function is to return, in thousandths of a second.
ClaimedSeconds(value) ==
    IF value.kind \in {"num", "bool"}
       THEN (IF value.val \in 0..10000000 THEN value.val ELSE 0)
    ELSE IF value.kind # "str" THEN 0
    ELSE IF IsClock(value.val)
       THEN int(split(value.val)[1]) * 3600000
                + int(split(value.val)[2]) * 60000 + float(split(value.val)[3])
    ELSE IF find(value.val, ":") = -1 /\ float(value.val) \in 0..10000000
       THEN float(value.val)
    ELSE 0

(***************************************************************************)
(* C23. convert_timestamp_to_seconds is total and never raises: a number   *)
(* in [0, 10000] comes back unchanged, a clock string H:M:S in range gives *)
(* H*3600 + M*60 + S, and every other input gives 0.0.                     *)
(***************************************************************************)
C23_ConvertTotal ==
    (worker = "timestamp" /\ san_pc = "convert_timestamp_to_seconds") =>
        san_out = Converted(ClaimedSeconds(reply))

(***************************************************************************)
(* process_page.py: find_text_positions, lines 202-281                     *)
(***************************************************************************)
\* str.lower() over the letters of the model.
LowerChar(ch) ==
    CASE ch = "A" -> "a"
      [] ch = "B" -> "b"
      [] OTHER -> ch

lower(text) == [i \in 1..Len(text) |-> LowerChar(text[i])]

\* str.split(): the runs of characters that are no whitespace.
RECURSIVE WhitespaceSplit(_)
WhitespaceSplit(text) ==
    LET rest == lstrip(text)
        stop == IF \E i \in 1..Len(rest) : rest[i] \in Whitespace
                   THEN (CHOOSE i \in 1..Len(rest) :
                            /\ rest[i] \in Whitespace
                            /\ \A j \in 1..(i - 1) : rest[j] \notin Whitespace)
                   ELSE Len(rest) + 1
    IN  IF rest = <<>> THEN <<>>
        ELSE <<SubSeq(rest, 1, stop - 1)>>
                 \o WhitespaceSplit(SubSeq(rest, stop, Len(rest)))

\* Scores are fractions: 1.0 is 1/1, 0.8 is 4/5.
Fraction(n, d) == [num |-> n, den |-> d]
Greater(a, b) == a.num * b.den > b.num * a.den
Threshold == Fraction(3, 10)

\* Lines 241-257: the score of one word of the page for one candidate.
Score(target_text, word) ==
    LET word_text == lower(word.text)
        target_words == WhitespaceSplit(lower(target_text))
    IN  IF \E k \in 1..Len(target_words) : lower(target_words[k]) = word_text
           THEN Fraction(1, 1)
        ELSE IF \/ IsSubstring(lower(target_text), word_text)
                \/ IsSubstring(word_text, lower(target_text))
           THEN Fraction(Min(Len(target_text), Len(word_text)),
                         Max(Len(target_text), Len(word_text)))
        ELSE IF Len(target_words) > 0 /\ IsSubstring(target_words[1], word_text)
           THEN Fraction(4, 5)
        ELSE Fraction(0, 1)

\* Lines 234-262: the loop over the first n words; best_match is an index
\* into words, 0 for None.
RECURSIVE BestMatch(_, _)
BestMatch(target_text, n) ==
    IF n = 0 THEN [best_match |-> 0, best_score |-> Fraction(0, 1)]
    ELSE LET before == BestMatch(target_text, n - 1)
             score == Score(target_text, words[n])
         IN  IF Greater(score, before.best_score)
                THEN [best_match |-> n, best_score |-> score]
                ELSE before

AcceptsAtThreshold(best) ==
    best.best_match # 0 /\ ~Greater(Threshold, best.best_score)

\* Line 264.
Accepts(best) == best.best_match # 0 /\ Greater(best.best_score, Threshold)

NeverExact(target_text) == FALSE

\* Line 220: if text_instances.
HasExact(target_text) == text_instances[target_text] # <<>>

\* Lines 224-229 and 266-271: the entry made from a box.
Coords(box) ==
    [x |-> box.x0, y |-> box.y0,
     width |-> box.x1 - box.x0, height |-> box.y1 - box.y0]

Put(mapping, key, value) ==
    [k \in DOMAIN mapping \cup {key} |-> IF k = key THEN value ELSE mapping[k]]

Target == target_texts[loc_i + 1]

\* Lines 205-206: the document opens and the page is there.
loc_open ==
    /\ worker = "find_text_positions"
    /\ loc_pc = "open"
    /\ loc_pc' = "loop"
    /\ UNCHANGED <<worker, target_texts, words, text_instances, text_positions,
                   loc_i, scored, notLoc>>

\* Lines 205-206 raise: the handler of line 279 returns {}.
loc_open_raises ==
    /\ worker = "find_text_positions"
    /\ loc_pc = "open"
    /\ loc_pc' = "done"
    /\ text_positions' = <<>>
    /\ UNCHANGED <<worker, target_texts, words, text_instances, loc_i, scored,
                   notLoc>>

\* Lines 220-230: the first exact box is taken.
loc_exact ==
    /\ worker = "find_text_positions"
    /\ loc_pc = "loop"
    /\ loc_i < Len(target_texts)
    /\ HasExact(Target)
    /\ text_positions' =
           Put(text_positions, Target, Coords(text_instances[Target][1]))
    /\ loc_i' = loc_i + 1
    /\ UNCHANGED <<worker, target_texts, words, text_instances, loc_pc, scored,
                   notLoc>>

\* Lines 231-274: no exact box; the words are scored and the best one is
\* taken when it is accepted.
loc_fuzzy ==
    /\ worker = "find_text_positions"
    /\ loc_pc = "loop"
    /\ loc_i < Len(target_texts)
    /\ ~HasExact(Target)
    /\ LET best == BestMatch(Target, Len(words))
       IN  text_positions' =
               IF Accepts(best)
                  THEN Put(text_positions, Target, Coords(words[best.best_match]))
                  ELSE text_positions
    /\ scored' = scored \cup {Target}
    /\ loc_i' = loc_i + 1
    /\ UNCHANGED <<worker, target_texts, words, text_instances, loc_pc, notLoc>>

\* Lines 276-277.
loc_return ==
    /\ worker = "find_text_positions"
    /\ loc_pc = "loop"
    /\ loc_i = Len(target_texts)
    /\ loc_pc' = "done"
    /\ UNCHANGED <<worker, target_texts, words, text_instances, text_positions,
                   loc_i, scored, notLoc>>

LocNext ==
    \/ loc_open
    \/ loc_open_raises
    \/ loc_exact
    \/ loc_fuzzy
    \/ loc_return

\* The candidate texts, the words and the boxes of the model.
LongWord == <<"a", "a", "a", "a", "a", "a", "a", "a", "a", "a">>
TargetTexts ==
    { <<>>, <<"a", "a">>, <<"a", "a", "a">>, <<"a", "a", "a", "a">>,
      <<"a", "b">>, <<"a", " ", "b">>, <<"A", "B">> }
WordTexts == {LongWord, <<"a">>, <<"A", "b">>, <<"b">>}

Rect1 == [x0 |-> 1, y0 |-> 1, x1 |-> 4, y1 |-> 3]
Rect2 == [x0 |-> 2, y0 |-> 5, x1 |-> 8, y1 |-> 7]
SearchResults == {<<>>, <<Rect1>>, <<Rect2, Rect1>>}

\* A word is (x0, y0, x1, y1, text): the k-th word lies at x0 = 10 * k.
PageWords ==
    {[k \in DOMAIN texts |->
         [x0 |-> 10 * k, y0 |-> 0, x1 |-> 10 * k + 5, y1 |-> 2,
          text |-> texts[k]]] :
        texts \in UNION {[1..n -> WordTexts] : n \in 0..MaxWords}}

LocIdle ==
    /\ target_texts = <<>>
    /\ words = <<>>
    /\ text_instances = <<>>
    /\ text_positions = <<>>
    /\ loc_pc = "idle"
    /\ loc_i = 0
    /\ scored = {}

LocStart ==
    /\ target_texts \in UNION {[1..n -> TargetTexts] : n \in 0..MaxTargets}
    /\ words \in PageWords
    /\ text_instances \in
           {f \in [TargetTexts -> SearchResults] :
               \A t \in TargetTexts :
                   (\A i \in 1..Len(target_texts) : target_texts[i] # t)
                       => f[t] = <<>>}
    /\ text_positions = <<>>
    /\ loc_pc = "open"
    /\ loc_i = 0
    /\ scored = {}

InTargets(t) == \E i \in 1..Len(target_texts) : target_texts[i] = t

\* The best score any word of the page has for a candidate.
BestScoreAbove(target_text) ==
    \E k \in 1..Len(words) : Greater(Score(target_text, words[k]), Threshold)

Located == worker = "find_text_positions" /\ loc_pc = "done" /\ loc_i = Len(target_texts)

(***************************************************************************)
(* C24. An exact match always wins: when find_text_positions returns,      *)
(* every candidate for which the exact search gave at least one box is     *)
(* mapped to the first of these boxes, unchanged, and the word scoring was *)
(* not run for it.                                                         *)
(***************************************************************************)
C24_ExactWins ==
    Located =>
        \A t \in TargetTexts :
            (InTargets(t) /\ text_instances[t] # <<>>) =>
                /\ t \in DOMAIN text_positions
                /\ text_positions[t] = Coords(text_instances[t][1])
                /\ t \notin scored

\* A candidate with an exact box and a word that scores 1.0 for it.
C24_Witness ==
    /\ Located
    /\ \E t \in TargetTexts :
          /\ InTargets(t)
          /\ Len(text_instances[t]) = 2
          /\ \E k \in 1..Len(words) : Score(t, words[k]) = Fraction(1, 1)
          /\ text_positions[t] = Coords(Rect2)

(***************************************************************************)
(* C25. A candidate with no exact match is in the returned mapping only if *)
(* some word of the page scores strictly above 0.3 for it, and it is then  *)
(* in the mapping whatever became of the other candidates.                 *)
(***************************************************************************)
C25_FuzzyThreshold ==
    Located =>
        \A t \in TargetTexts :
            (InTargets(t) /\ text_instances[t] = <<>>) =>
                (t \in DOMAIN text_positions <=> BestScoreAbove(t))

\* A candidate whose best word scores exactly 0.3 is absent, next to one
\* that is present.
C25_Witness ==
    /\ Located
    /\ \E t \in TargetTexts :
          /\ InTargets(t)
          /\ text_instances[t] = <<>>
          /\ BestMatch(t, Len(words)).best_score = Threshold
          /\ t \notin DOMAIN text_positions
    /\ DOMAIN text_positions # {}

(***************************************************************************)
(* process_page.py: main (lines 391-424) and process_page (lines 306-389)  *)
(***************************************************************************)
\* How OllamaManager.chat can end (ollama_manager.py, lines 136-159), and
\* call_gemma_model with it (process_page.py, lines 181-200).
ChatOutcomes == {"200", "non200", "RequestException", "no_message"}

ChatFailed == chat_outcome \in {"non200", "RequestException", "no_message"}

\* Line 289: an image is taken for a face when its data is longer than this.
FaceBytes == 10000

\* The ids of lines 347 and 383, as texts.
Decimal(n) == IF n < 10 THEN <<Digits[n + 1]>> ELSE <<Digits[(n \div 10) + 1], Digits[(n % 10) + 1]>>
CandidateId(i) ==
    PyStr(<<"page_">> \o Decimal(page_number) \o <<"_redaction_">> \o Decimal(i))
FaceId(n) ==
    PyStr(<<"page_">> \o Decimal(page_number) \o <<"_face_">> \o Decimal(n))
\* Line 383: the id of the k-th face when the list holds n candidates;
\* len(redactions) does not change inside the loop.
FaceIdOf(n, k) == FaceId(n)

\* Lines 338-340: redaction['text'] and redaction['category'] are read.
IsCandidate(item) ==
    item.kind = "dict" /\ HasKey(item.val, <<"text">>)
        /\ HasKey(item.val, <<"category">>)

PageCoordinates(box) ==
    PyDict(<<[key |-> <<"page">>, val |-> PyNum(1000 * page_number)],
             [key |-> <<"x">>, val |-> PyNum(1000 * box.x)],
             [key |-> <<"y">>, val |-> PyNum(1000 * box.y)],
             [key |-> <<"width">>, val |-> PyNum(1000 * box.width)],
             [key |-> <<"height">>, val |-> PyNum(1000 * box.height)]>>)

\* Lines 366-372: the estimated box of candidate i (0-based).
Fallback(i, item_text) ==
    [x |-> 100 + i * 50, y |-> 100 + i * 30,
     width |-> Max(100, Len(item_text) * 8), height |-> 20]

\* Lines 346-376, for the candidate at position k (1-based) of the list.
Enriched(item, k, found) ==
    LET item_text == DictGet(item.val, <<"text">>).val
        box == IF item_text \in found THEN Coords(Rect1)
                                      ELSE Fallback(k - 1, item_text)
    IN  PyDict(DictSet(DictSet(DictSet(item.val,
            <<"id">>, CandidateId(k - 1)),
            <<"coordinates">>, PageCoordinates(box)),
            <<"accepted">>, [kind |-> "bool", val |-> 0]))

\* Lines 286-301 and 382-385: the face candidate of the k-th big image.
Face(n, k) ==
    PyDict(<<[key |-> <<"text">>, val |-> PyStr(<<"DETECTED_FACE">>)],
             [key |-> <<"category">>, val |-> PyStr(<<"FACES">>)],
             [key |-> <<"confidence">>, val |-> PyNum(850)],
             [key |-> <<"coordinates">>, val |-> PageCoordinates(Coords(Rect2))],
             [key |-> <<"id">>, val |-> FaceIdOf(n, k)],
             [key |-> <<"accepted">>, val |-> [kind |-> "bool", val |-> 0]]>>)

BigImages == {k \in 1..Len(images) : images[k] > FaceBytes}

RECURSIVE Faces(_, _)
Faces(n, upto) ==
    IF upto = 0 THEN <<>>
    ELSE IF upto \in BigImages
            THEN Append(Faces(n, upto - 1),
                        Face(n, Cardinality({k \in BigImages : k <= upto})))
            ELSE Faces(n, upto - 1)

\* sys.exit(code), or the end of main after print(json.dumps(redactions)).
Exit(code, printed) ==
    /\ pg_pc' = "exited"
    /\ exit_code' = code
    /\ stdout' = printed

Prints(list) == [printed |-> TRUE, list |-> list]
NothingPrinted == [printed |-> FALSE, list |-> <<>>]

\* Lines 413-417: initialize_ollama().
pg_initialize ==
    /\ worker = "process_page"
    /\ pg_pc = "main"
    /\ \E ok \in BOOLEAN :
          IF ok
             THEN pg_pc' = "extract" /\ UNCHANGED <<exit_code, stdout>>
             ELSE Exit(1, NothingPrinted)
    /\ UNCHANGED <<worker, profile, page_number, page_text, images, chat_outcome,
                   chats, page_redactions, reply, san_pc, san_out,
                   supVars, audVars, pdfVars, locVars, accVars>>

\* Lines 310-314: a page without text gives [] (printed at line 421).
pg_extract ==
    /\ worker = "process_page"
    /\ pg_pc = "extract"
    /\ IF strip(page_text) = <<>>
          THEN Exit(0, Prints(<<>>))
          ELSE pg_pc' = "chat" /\ UNCHANGED <<exit_code, stdout>>
    /\ UNCHANGED <<worker, profile, page_number, page_text, images, chat_outcome,
                   chats, page_redactions, reply, san_pc, san_out,
                   supVars, audVars, pdfVars, locVars, accVars>>

\* Lines 327-331: one chat request; a reply that is None or empty gives [].
pg_chat ==
    /\ worker = "process_page"
    /\ pg_pc = "chat"
    /\ \E outcome \in ChatOutcomes :
          /\ chat_outcome' = outcome
          /\ IF outcome = "200" /\ reply.val # <<>>
                THEN pg_pc' = "parse" /\ UNCHANGED <<exit_code, stdout>>
                ELSE Exit(0, Prints(<<>>))
    /\ chats' = chats + 1
    /\ UNCHANGED <<worker, profile, page_number, page_text, images,
                   page_redactions, reply, san_pc, san_out,
                   supVars, audVars, pdfVars, locVars, accVars>>

\* Lines 334-340: the reply is sanitized; an element that is no object with
\* 'text' and 'category' raises, which main turns into exit 1 (line 422).
pg_parse ==
    /\ worker = "process_page"
    /\ pg_pc = "parse"
    /\ LET parsed == parse_model_response(reply).val.val
       IN  IF \A k \in 1..Len(parsed) : IsCandidate(parsed[k])
              THEN /\ page_redactions' = parsed
                   /\ pg_pc' = "locate"
                   /\ UNCHANGED <<exit_code, stdout>>
              ELSE /\ Exit(1, NothingPrinted)
                   /\ UNCHANGED page_redactions
    /\ UNCHANGED <<worker, profile, page_number, page_text, images, chat_outcome,
                   chats, reply, san_pc, san_out,
                   supVars, audVars, pdfVars, locVars, accVars>>

\* Lines 343-376: find_text_positions locates some of the texts; every
\* candidate gets its id, its coordinates and accepted = False.
pg_locate ==
    /\ worker = "process_page"
    /\ pg_pc = "locate"
    /\ \E found \in SUBSET {DictGet(page_redactions[k].val, <<"text">>).val :
                              k \in 1..Len(page_redactions)} :
          page_redactions' =
              [k \in 1..Len(page_redactions) |->
                  Enriched(page_redactions[k], k, found)]
    /\ pg_pc' = IF profile = "deep" THEN "faces" ELSE "print"
    /\ UNCHANGED <<worker, profile, page_number, page_text, images, chat_outcome,
                   chats, exit_code, stdout, reply, san_pc, san_out,
                   supVars, audVars, pdfVars, locVars, accVars>>

\* Lines 379-387: the deep profile adds the faces.
pg_faces ==
    /\ worker = "process_page"
    /\ pg_pc = "faces"
    /\ page_redactions' =
           page_redactions \o Faces(Len(page_redactions), Len(images))
    /\ pg_pc' = "print"
    /\ UNCHANGED <<worker, profile, page_number, page_text, images, chat_outcome,
                   chats, exit_code, stdout, reply, san_pc, san_out,
                   supVars, audVars, pdfVars, locVars, accVars>>

\* Lines 389 and 420-421.
pg_print ==
    /\ worker = "process_page"
    /\ pg_pc = "print"
    /\ Exit(0, Prints(page_redactions))
    /\ UNCHANGED <<worker, profile, page_number, page_text, images, chat_outcome,
                   chats, page_redactions, reply, san_pc, san_out,
                   supVars, audVars, pdfVars, locVars, accVars>>

PgNext ==
    \/ pg_initialize
    \/ pg_extract
    \/ pg_chat
    \/ pg_parse
    \/ pg_locate
    \/ pg_faces
    \/ pg_print

\* The replies of the model to the page prompt.
Candidate(item_text) ==
    <<"{">> \o Str(<<"text">>) \o <<":">> \o Str(item_text) \o <<",">>
        \o Str(<<"category">>) \o <<":">> \o Str(<<"PII">>) \o <<"}">>

PageReplies ==
    { <<>>, <<"Here">>, <<"[", "]">>, <<"[", "1", "]">>,
      <<"[">> \o Member("text", Str(<<"a", "a">>)) \o <<"]">>,
      <<"[">> \o Candidate(<<"a", "a">>) \o <<"]">>,
      <<"[">> \o Candidate(<<"a", "a">>) \o <<",">> \o Candidate(<<"a", "b">>) \o <<"]">>,
      <<"[">> \o Candidate(<<"a", "a">>) \o <<",">> \o Candidate(<<"a", "a">>) \o <<"]">> }

ImageSizes == {FaceBytes, FaceBytes + 1}

PgIdle ==
    /\ profile = "quick"
    /\ page_number = 0
    /\ page_text = <<>>
    /\ images = <<>>
    /\ chat_outcome = "none"
    /\ chats = 0
    /\ page_redactions = <<>>
    /\ pg_pc = "idle"
    /\ exit_code = -1
    /\ stdout = NothingPrinted

PgStart ==
    /\ profile \in {"quick", "deep"}
    /\ page_number \in 1..MaxPages
    /\ page_text \in {<<>>, <<" ", "\n">>, <<"a", "a", " ", "a", "b">>}
    /\ images \in UNION {[1..n -> ImageSizes] : n \in 0..MaxImages}
    /\ chat_outcome = "none"
    /\ chats = 0
    /\ page_redactions = <<>>
    /\ pg_pc = "main"
    /\ exit_code = -1
    /\ stdout = NothingPrinted
    /\ reply \in {[kind |-> "text", val |-> text] : text \in PageReplies}
    /\ san_pc = "idle"
    /\ san_out = Returned(PyNone)

PgExited == worker = "process_page" /\ pg_pc = "exited"

(***************************************************************************)
(* C26. A service-level failure is fatal to process_page: when the chat    *)
(* request fails (non-200, request error, reply without message) the CLI   *)
(* exits non-zero and prints no candidate list, and the request is not     *)
(* sent again.                                                             *)
(***************************************************************************)
C26_ServiceFailureIsFatal ==
    /\ worker = "process_page" => chats <= 1
    /\ (PgExited /\ ChatFailed) => (exit_code # 0 /\ ~stdout.printed)

(***************************************************************************)
(* C30. Every candidate process_page returns carries an id, and the ids of *)
(* one returned list are pairwise distinct, for both profiles.             *)
(***************************************************************************)
C30_DistinctIds ==
    (PgExited /\ stdout.printed) =>
        /\ \A k \in 1..Len(stdout.list) : HasKey(stdout.list[k].val, <<"id">>)
        /\ \A j, k \in 1..Len(stdout.list) :
              j # k => DictGet(stdout.list[j].val, <<"id">>)
                          # DictGet(stdout.list[k].val, <<"id">>)

(***************************************************************************)
(* ollama_manager.py: get_ollama_manager, initialize_ollama and            *)
(* call_ollama_chat, lines 200-218                                         *)
(***************************************************************************)
Accessors == {"get_ollama_manager", "initialize_ollama", "call_ollama_chat"}

\* Lines 203, 212, 217: a thread calls one of the accessors; each starts
\* with get_ollama_manager().
acc_call(t) ==
    /\ worker = "get_ollama_manager"
    /\ acc_pc[t] = "idle"
    /\ acc_calls[t] < MaxCalls
    /\ \E fn \in Accessors : acc_fn' = [acc_fn EXCEPT ![t] = fn]
    /\ acc_calls' = [acc_calls EXCEPT ![t] = @ + 1]
    /\ acc_pc' = [acc_pc EXCEPT ![t] = "test"]
    /\ UNCHANGED <<worker, global_manager, instances, observed, notAcc>>

\* Line 206: if _ollama_manager is None.
IsNone == global_manager = None

acc_test(t) ==
    /\ worker = "get_ollama_manager"
    /\ acc_pc[t] = "test"
    /\ acc_pc' = [acc_pc EXCEPT ![t] = IF IsNone THEN "construct" ELSE "return"]
    /\ UNCHANGED <<worker, global_manager, instances, acc_fn, acc_calls,
                   observed, notAcc>>

\* Line 207: _ollama_manager = OllamaManager(). No lock is held between
\* the test of line 206 and this assignment.
acc_construct(t) ==
    /\ worker = "get_ollama_manager"
    /\ acc_pc[t] = "construct"
    /\ instances' = instances + 1
    /\ global_manager' = instances + 1
    /\ acc_pc' = [acc_pc EXCEPT ![t] = "return"]
    /\ UNCHANGED <<worker, acc_fn, acc_calls, observed, notAcc>>

\* Line 208: return _ollama_manager; the caller works with what it got.
acc_return(t) ==
    /\ worker = "get_ollama_manager"
    /\ acc_pc[t] = "return"
    /\ observed' = [observed EXCEPT ![t] = @ \cup {global_manager}]
    /\ acc_pc' = [acc_pc EXCEPT ![t] = "idle"]
    /\ UNCHANGED <<worker, global_manager, instances, acc_fn, acc_calls, notAcc>>

AccNext ==
    \/ \E t \in Threads : acc_call(t)
    \/ \E t \in Threads : acc_test(t)
    \/ \E t \in Threads : acc_construct(t)
    \/ \E t \in Threads : acc_return(t)

AccIdle ==
    /\ global_manager = None
    /\ instances = 0
    /\ acc_pc = [t \in Threads |-> "idle"]
    /\ acc_fn = [t \in Threads |-> "none"]
    /\ acc_calls = [t \in Threads |-> 0]
    /\ observed = [t \in Threads |-> {}]

(***************************************************************************)
(* C27. Concurrent calls of get_ollama_manager, initialize_ollama and      *)
(* call_ollama_chat share one OllamaManager: at most one instance is ever  *)
(* created and every call gets the same one.                               *)
(***************************************************************************)
C27_SingleManager ==
    worker = "get_ollama_manager" =>
        /\ instances <= 1
        /\ Cardinality(UNION {observed[t] : t \in Threads}) <= 1

PdfIdle ==
    /\ pdf_redactions = <<>>
    /\ text_redactions = <<>>
    /\ image_redactions = <<>>
    /\ annots = <<>>
    /\ removed = <<>>
    /\ drawn = <<>>
    /\ p_pc = "idle"
    /\ p_idx = 0
    /\ p_result = "pending"
    /\ p_error = "none"
    /\ saved = <<>>

(***************************************************************************)
(* Specifications: one per program, and all of them.                       *)
(***************************************************************************)
SupInit ==
    /\ worker = "ollama_manager"
    /\ SupStart
    /\ SanIdle
    /\ LocIdle
    /\ PgIdle
    /\ AccIdle
    /\ pull_outputs = {<<<<"a", "\n">>>>}
    /\ AudIdle
    /\ PdfIdle

ManInit ==
    /\ worker = "ollama_manager"
    /\ SupStart
    /\ SanIdle
    /\ LocIdle
    /\ PgIdle
    /\ AccIdle
    /\ pull_outputs = PullOutputs
    /\ AudIdle
    /\ PdfIdle

OthersIdle == SanIdle /\ LocIdle /\ PgIdle /\ AccIdle

AudInit ==
    worker = "apply_audio_redactions" /\ SupIdle /\ AudStart /\ PdfIdle /\ OthersIdle
LegacyInit ==
    worker = "process_audio" /\ SupIdle /\ AudStart /\ PdfIdle /\ OthersIdle
PdfInit == worker = "export_pdf" /\ SupIdle /\ AudIdle /\ PdfStart /\ OthersIdle
SanInit ==
    worker = "sanitizer" /\ SupIdle /\ AudIdle /\ PdfIdle /\ SanStart /\ LocIdle
        /\ PgIdle /\ AccIdle
    /\ AccIdle
TsInit ==
    worker = "timestamp" /\ SupIdle /\ AudIdle /\ PdfIdle /\ TsStart /\ LocIdle
        /\ PgIdle /\ AccIdle
    /\ AccIdle
LocInit ==
    worker = "find_text_positions" /\ SupIdle /\ AudIdle /\ PdfIdle /\ SanIdle
        /\ LocStart /\ PgIdle /\ AccIdle
PgInit ==
    worker = "process_page" /\ SupIdle /\ AudIdle /\ PdfIdle /\ LocIdle /\ PgStart
        /\ AccIdle
AccInit == worker = "get_ollama_manager" /\ SupIdle /\ AudIdle /\ PdfIdle /\ OthersIdle

SpecSupervisor == SupInit /\ [][SupNext]_vars
SpecManager == ManInit /\ [][ManNext]_vars
SpecManagerFair == ManInit /\ [][ManNext]_vars /\ WF_vars(ShutdownSteps)
SpecAudio == AudInit /\ [][AudNext]_vars
SpecAudioRedactors == (AudInit \/ LegacyInit) /\ [][AudNext \/ LegacyNext]_vars
SpecPdf == PdfInit /\ [][PdfNext]_vars
SpecPdfAgain == PdfInit /\ [][PdfNext \/ export_again]_vars
SpecSanitizer == SanInit /\ [][SanNext]_vars
SpecTimestamp == TsInit /\ [][call_convert_timestamp_to_seconds]_vars
SpecLocator == LocInit /\ [][LocNext]_vars
SpecPage == PgInit /\ [][PgNext]_vars
SpecAccessors == AccInit /\ [][AccNext]_vars

Init ==
    \/ SupInit
    \/ ManInit
    \/ AudInit
    \/ LegacyInit
    \/ PdfInit
    \/ SanInit
    \/ TsInit
    \/ LocInit
    \/ PgInit
    \/ AccInit
Next ==
    \/ SupNext
    \/ ManNext
    \/ AudNext
    \/ LegacyNext
    \/ PdfNext
    \/ export_again
    \/ SanNext
    \/ call_convert_timestamp_to_seconds
    \/ LocNext
    \/ PgNext
    \/ AccNext
Spec == Init /\ [][Next]_vars
====
